---- MODULE Spec2Model ----
(***************************************************************************)
(* bump-n-go: commit classification, workspace attribution and the        *)
(* version-bump decision, as implemented by parseCommits (commits.ts),    *)
(* determineVersionBumpType (bump.ts) and processMonorepo (index.ts);     *)
(* the changelog writers (changelog.ts) and bumpVersions (version.ts)     *)
(* are specified on their own, each called directly.                      *)
(*                                                                         *)
(* Strings are TLA+ strings; TLC evaluates Len, SubSeq and \o on them, so *)
(* the regular expressions and String.prototype.includes / startsWith /   *)
(* endsWith are computed on the real commit text.                         *)
(***************************************************************************)
EXTENDS Naturals, Sequences, FiniteSets, TLC

(* ------------------------------------------------------------------ *)
(* Bounds                                                              *)
(* ------------------------------------------------------------------ *)
MaxCommits == 2   \* commits returned by getCommitsSinceTag
MaxList == 2      \* length of the list handed to determineVersionBumpType

(* ------------------------------------------------------------------ *)
(* JavaScript values and string primitives                            *)
(* ------------------------------------------------------------------ *)
Range(seq) == { seq[i] : i \in 1..Len(seq) }

\* A nullable string (string | null | undefined) is <<>> or <<s>>.
Null == <<>>
Some(s) == <<s>>

Includes(s, t) ==
    \E i \in 1..(Len(s) + 1) :
        i + Len(t) - 1 <= Len(s) /\ SubSeq(s, i, i + Len(t) - 1) = t

SubstrAt(s, i, t) ==
    i + Len(t) - 1 <= Len(s) /\ SubSeq(s, i, i + Len(t) - 1) = t

StartsWith(s, t) == Len(t) <= Len(s) /\ SubSeq(s, 1, Len(t)) = t

EndsWith(s, t) ==
    Len(t) <= Len(s) /\ SubSeq(s, Len(s) - Len(t) + 1, Len(s)) = t

CharAt(s, i) == SubSeq(s, i, i)

LowerChars == "abcdefghijklmnopqrstuvwxyz"
UpperChars == "ABCDEFGHIJKLMNOPQRSTUVWXYZ"
DigitChars == "0123456789_"

\* \w of the header patterns
IsWordChar(c) ==
    \/ \E i \in 1..26 : CharAt(LowerChars, i) = c \/ CharAt(UpperChars, i) = c
    \/ \E i \in 1..11 : CharAt(DigitChars, i) = c

UpperChar(c) ==
    IF \E i \in 1..26 : CharAt(LowerChars, i) = c
    THEN CharAt(UpperChars, CHOOSE i \in 1..26 : CharAt(LowerChars, i) = c)
    ELSE c

RECURSIVE ToUpper(_)
ToUpper(s) ==
    IF Len(s) = 0 THEN "" ELSE UpperChar(CharAt(s, 1)) \o ToUpper(SubSeq(s, 2, Len(s)))

\* first position >= from holding a character satisfying stop, or Len(s)+1
RECURSIVE IndexOfChar(_, _, _)
IndexOfChar(s, c, from) ==
    IF from > Len(s) THEN Len(s) + 1
    ELSE IF CharAt(s, from) = c THEN from
    ELSE IndexOfChar(s, c, from + 1)

\* s.split('\n')
RECURSIVE SplitLines(_)
SplitLines(s) ==
    LET k == IndexOfChar(s, "\n", 1)
    IN  IF k > Len(s) THEN <<s>>
        ELSE <<SubSeq(s, 1, k - 1)>> \o SplitLines(SubSeq(s, k + 1, Len(s)))

\* input.replace(/^\n+|\n+$/g, '')
RECURSIVE TrimNewLines(_)
TrimNewLines(s) ==
    IF Len(s) = 0 THEN s
    ELSE IF CharAt(s, 1) = "\n" THEN TrimNewLines(SubSeq(s, 2, Len(s)))
    ELSE IF CharAt(s, Len(s)) = "\n" THEN TrimNewLines(SubSeq(s, 1, Len(s) - 1))
    ELSE s

\* captured || null : an absent or empty capture becomes null
OrNull(v) == IF v = Null \/ v = Some("") THEN Null ELSE v

\* JavaScript truthiness of a nullable string
Truthy(v) == v # Null /\ v # Some("")

\* `${v}` of a nullable string
Template(v) == IF v = Null THEN "undefined" ELSE v[1]

(* ------------------------------------------------------------------ *)
(* The configured CommitParser (commits.ts 7-12)                       *)
(* ------------------------------------------------------------------ *)
\* length of the \w* prefix of s
RECURSIVE WordPrefixLen(_)
WordPrefixLen(s) ==
    IF Len(s) = 0 \/ ~IsWordChar(CharAt(s, 1)) THEN 0
    ELSE 1 + WordPrefixLen(SubSeq(s, 2, Len(s)))

NoMatch == [matched |-> FALSE, bang |-> FALSE, type |-> Null, scope |-> Null, subject |-> Null]

\* /^(\w*)(?:\(([^)]*)\))?: (.*)$/ when bang is FALSE,
\* /^(\w*)(?:\(([^)]*)\))?!: (.*)$/ when bang is TRUE
MatchHeader(header, bang) ==
    LET k == WordPrefixLen(header)
        open == k + 1
        close == IndexOfChar(header, ")", open + 1)
        hasScope == open <= Len(header) /\ CharAt(header, open) = "(" /\ close <= Len(header)
        after == IF hasScope THEN close + 1 ELSE open
        sep == IF bang THEN "!: " ELSE ": "
        rest == SubSeq(header, after, Len(header))
    IN  IF StartsWith(rest, sep)
        THEN [matched |-> TRUE, bang |-> bang,
              type |-> Some(SubSeq(header, 1, k)),
              scope |-> IF hasScope THEN Some(SubSeq(header, open + 1, close - 1)) ELSE Null,
              subject |-> Some(SubSeq(rest, Len(sep) + 1, Len(rest)))]
        ELSE NoMatch

noteKeywords == <<"BREAKING CHANGE", "BREAKING CHANGES">>

\* number of leading characters of s that belong to the set cs
RECURSIVE SpanLen(_, _)
SpanLen(s, cs) ==
    IF Len(s) = 0 \/ CharAt(s, 1) \notin cs THEN 0
    ELSE 1 + SpanLen(SubSeq(s, 2, Len(s)), cs)

\* the parser's notes pattern /^[\s|*]*(BREAKING CHANGE|BREAKING CHANGES)[:\s]+(.*)/i
\* applied to one line: <<>> when the line is no note, else <<[title, text]>>
\* with the title as written in the commit
MatchNote(line) ==
    LET lead == SpanLen(line, {" ", "\t", "|", "*"})
        rest == SubSeq(line, lead + 1, Len(line))
        Try(kw) ==
            LET tail == SubSeq(rest, Len(kw) + 1, Len(rest))
                gap == SpanLen(tail, {":", " ", "\t"})
            IN  IF Len(rest) >= Len(kw) /\ ToUpper(SubSeq(rest, 1, Len(kw))) = kw /\ gap >= 1
                THEN <<[title |-> SubSeq(rest, 1, Len(kw)),
                        text |-> SubSeq(tail, gap + 1, Len(tail))]>>
                ELSE <<>>
    IN  IF Try(noteKeywords[1]) # <<>> THEN Try(noteKeywords[1]) ELSE Try(noteKeywords[2])

\* the footer scan: every note line opens a note, every other line after a
\* note is appended to that note's text
RECURSIVE ScanNotes(_, _)
ScanNotes(lines, notes) ==
    IF lines = <<>> THEN notes
    ELSE LET m == MatchNote(Head(lines))
             n == Len(notes)
         IN  IF m # <<>> THEN ScanNotes(Tail(lines), notes \o m)
             ELSE IF n = 0 THEN ScanNotes(Tail(lines), notes)
             ELSE ScanNotes(Tail(lines),
                     [notes EXCEPT ![n].text = notes[n].text \o "\n" \o Head(lines)])

\* parser.parse(raw): header fields (breakingHeaderPattern is tried first,
\* then headerPattern), the notes of the body, and the note the parser adds
\* for a breaking header when the body gave none
parse(raw) ==
    LET lines == SplitLines(TrimNewLines(raw))
        header == lines[1]
        b == MatchHeader(header, TRUE)
        h == IF b.matched THEN b ELSE MatchHeader(header, FALSE)
        scanned == ScanNotes(Tail(lines), <<>>)
        trimmed == [i \in 1..Len(scanned) |->
                       [scanned[i] EXCEPT !.text = TrimNewLines(scanned[i].text)]]
        notes == IF trimmed = <<>> /\ b.matched
                 THEN <<[title |-> "BREAKING CHANGE", text |-> b.subject[1]]>>
                 ELSE trimmed
    IN  [type |-> OrNull(h.type), scope |-> OrNull(h.scope),
         subject |-> OrNull(h.subject), notes |-> notes]

(* ------------------------------------------------------------------ *)
(* constants.ts                                                        *)
(* ------------------------------------------------------------------ *)
ChangeTypeMapping ==
    [feat |-> "minor", feature |-> "minor", improv |-> "minor",
     fix |-> "patch", docs |-> "patch", style |-> "patch",
     refactor |-> "patch", perf |-> "patch", test |-> "patch",
     chore |-> "patch", ci |-> "patch", build |-> "patch"]

TypeHierarchy == [major |-> 3, minor |-> 2, patch |-> 1]

(* ------------------------------------------------------------------ *)
(* commits.ts                                                          *)
(* ------------------------------------------------------------------ *)
isAllowedType(type) == type \in DOMAIN ChangeTypeMapping

\* /bump the .+ group/.test(subject)
BumpGroupPattern(subject) ==
    \E i \in 1..Len(subject) :
        /\ SubstrAt(subject, i, "bump the ")
        /\ \E j \in (i + 10)..Len(subject) : SubstrAt(subject, j, " group")

isDependabotGroupCommit(subject, scope) ==
    scope = "deps" /\ BumpGroupPattern(subject)

OtherSections ==
    <<"\"peerDependencies\"", "\"optionalDependencies\"", "\"scripts\"",
      "\"engines\"", "\"repository\"", "\"keywords\"", "\"author\"",
      "\"license\"", "\"bugs\"", "\"homepage\"", "\"main\"", "\"module\"",
      "\"types\"", "\"bin\"", "\"files\"", "\"workspaces\"", "\"private\"",
      "\"name\"", "\"version\"", "\"description\"">>

\* the line loop of hasProductionDependencyChanges; inDeps is
\* inDependenciesSection (inDevDependenciesSection is written, never read)
RECURSIVE ScanDiff(_, _)
ScanDiff(lines, inDeps) ==
    IF lines = <<>> THEN FALSE
    ELSE LET line == Head(lines)
             now == IF Includes(line, "\"dependencies\"") /\ Includes(line, ":") THEN TRUE
                    ELSE IF Includes(line, "\"devDependencies\"") /\ Includes(line, ":") THEN FALSE
                    ELSE IF \E k \in 1..Len(OtherSections) : Includes(line, OtherSections[k]) THEN FALSE
                    ELSE inDeps
         IN  IF /\ now
                /\ (StartsWith(line, "+") \/ StartsWith(line, "-"))
                /\ ~Includes(line, "\"dependencies\"")
             THEN TRUE
             ELSE ScanDiff(Tail(lines), now)

hasProductionDependencyChanges(diff) == ScanDiff(SplitLines(diff), FALSE)

\* getFileDiff results: a change inside "dependencies", one inside "devDependencies"
DiffProd ==
    " {\n   \"name\": \"a\",\n   \"dependencies\": {\n-    \"lodash\": \"1\"\n+    \"lodash\": \"2\"\n   },\n   \"devDependencies\": {\n     \"vitest\": \"3\"\n   }\n }"

DiffDev ==
    " {\n   \"name\": \"a\",\n   \"dependencies\": {\n     \"lodash\": \"1\"\n   },\n   \"devDependencies\": {\n-    \"vitest\": \"3\"\n+    \"vitest\": \"4\"\n   }\n }"

Diffs == {DiffProd, DiffDev}

\* hasProductionDependencyChanges of every diff above
ProductionChangeTable == { <<d, hasProductionDependencyChanges(d)>> : d \in Diffs }

ProductionChange(diff) == (CHOOSE p \in ProductionChangeTable : p[1] = diff)[2]

\* path.relative(rootPath, path) for a path at or below rootPath
relative(rootPath, path) ==
    IF path = rootPath THEN ""
    ELSE IF StartsWith(path, rootPath \o "/")
         THEN SubSeq(path, Len(rootPath) + 2, Len(path))
         ELSE path

\* variant: the workspace is pushed whatever its diff shows
RECURSIVE OwnerOfFileAnyDiff(_, _, _, _, _)
OwnerOfFileAnyDiff(file, keys, workspaces, rootPath, diffOf) ==
    IF keys = <<>> THEN <<>>
    ELSE LET w == workspaces[Head(keys)]
         IN  IF StartsWith(file, relative(rootPath, w.path) \o "/")
             THEN IF w.isPrivate THEN <<>> ELSE <<Head(keys)>>
             ELSE OwnerOfFileAnyDiff(file, Tail(keys), workspaces, rootPath, diffOf)

\* the inner loop over Object.values(workspaces) for one package.json file:
\* the keys to push (none or one) for the first workspace whose relative
\* path prefixes the file
RECURSIVE OwnerOfFile(_, _, _, _, _)
OwnerOfFile(file, keys, workspaces, rootPath, diffOf) ==
    IF keys = <<>> THEN <<>>
    ELSE LET w == workspaces[Head(keys)]
         IN  IF StartsWith(file, relative(rootPath, w.path) \o "/")
             THEN IF w.isPrivate THEN <<>>
                  ELSE IF ProductionChange(diffOf[file])
                       THEN <<Head(keys)>> ELSE <<>>
             ELSE OwnerOfFile(file, Tail(keys), workspaces, rootPath, diffOf)

\* getAffectedWorkspacesFromChangedFiles: the affected workspaces (by key),
\* one entry per qualifying package.json, in file order
RECURSIVE getAffectedWorkspacesFromChangedFiles(_, _, _, _, _)
getAffectedWorkspacesFromChangedFiles(changedFiles, keys, workspaces, rootPath, diffOf) ==
    IF changedFiles = <<>> THEN <<>>
    ELSE LET file == Head(changedFiles)
             rest == getAffectedWorkspacesFromChangedFiles(
                         Tail(changedFiles), keys, workspaces, rootPath, diffOf)
         IN  IF ~EndsWith(file, "package.json") \/ file = "package.json" THEN rest
             ELSE OwnerOfFile(file, keys, workspaces, rootPath, diffOf) \o rest

\* variant: the diff is requested before the private check
RECURSIVE FileDiffCallsPrivateToo(_, _, _, _)
FileDiffCallsPrivateToo(file, keys, workspaces, rootPath) ==
    IF keys = <<>> THEN <<>>
    ELSE LET w == workspaces[Head(keys)]
         IN  IF StartsWith(file, relative(rootPath, w.path) \o "/")
             THEN << <<"getFileDiff", file>> >>
             ELSE FileDiffCallsPrivateToo(file, Tail(keys), workspaces, rootPath)

\* the getFileDiff call the inner loop makes for one package.json file (none
\* when no workspace owns the file or the owner is private)
RECURSIVE FileDiffCalls(_, _, _, _)
FileDiffCalls(file, keys, workspaces, rootPath) ==
    IF keys = <<>> THEN <<>>
    ELSE LET w == workspaces[Head(keys)]
         IN  IF StartsWith(file, relative(rootPath, w.path) \o "/")
             THEN IF w.isPrivate THEN <<>> ELSE << <<"getFileDiff", file>> >>
             ELSE FileDiffCalls(file, Tail(keys), workspaces, rootPath)

\* the getFileDiff calls of getAffectedWorkspacesFromChangedFiles, in order
RECURSIVE AllFileDiffCalls(_, _, _, _)
AllFileDiffCalls(changedFiles, keys, workspaces, rootPath) ==
    IF changedFiles = <<>> THEN <<>>
    ELSE LET file == Head(changedFiles)
             rest == AllFileDiffCalls(Tail(changedFiles), keys, workspaces, rootPath)
         IN  IF ~EndsWith(file, "package.json") \/ file = "package.json" THEN rest
             ELSE FileDiffCalls(file, keys, workspaces, rootPath) \o rest

\* variant: the containment test is taken the other way round
RECURSIVE DepNameMatchesReversed(_, _, _)
DepNameMatchesReversed(key, depNames, subject) ==
    IF depNames = <<>> THEN <<>>
    ELSE (IF Includes(Head(depNames), subject) THEN <<key>> ELSE <<>>)
         \o DepNameMatchesReversed(key, Tail(depNames), subject)

\* the individual-update loops: one push per matching dependency name of
\* every non-private workspace
RECURSIVE DepNameMatches(_, _, _)
DepNameMatches(key, depNames, subject) ==
    IF depNames = <<>> THEN <<>>
    ELSE (IF Includes(subject, Head(depNames)) THEN <<key>> ELSE <<>>)
         \o DepNameMatches(key, Tail(depNames), subject)

\* variant: private workspaces take part in the fan-out
RECURSIVE IndividualUpdateAll(_, _, _)
IndividualUpdateAll(keys, workspaces, subject) ==
    IF keys = <<>> THEN <<>>
    ELSE DepNameMatches(Head(keys), workspaces[Head(keys)].dependencyNames, subject)
         \o IndividualUpdateAll(Tail(keys), workspaces, subject)

RECURSIVE IndividualUpdate(_, _, _)
IndividualUpdate(keys, workspaces, subject) ==
    IF keys = <<>> THEN <<>>
    ELSE LET w == workspaces[Head(keys)]
         IN  (IF w.isPrivate THEN <<>>
              ELSE DepNameMatches(Head(keys), w.dependencyNames, subject))
             \o IndividualUpdate(Tail(keys), workspaces, subject)

\* variant: any note keyword sets the flag
BreakingOfAnyKeyword(notes) ==
    \E i \in 1..Len(notes), k \in 1..Len(noteKeywords) : notes[i].title = noteKeywords[k]

\* variant: the title is compared with the plural keyword
BreakingOfPlural(notes) == \E i \in 1..Len(notes) : notes[i].title = "BREAKING CHANGES"

\* breaking: notes.some((note) => note.title === 'BREAKING CHANGE')
BreakingOf(notes) == \E i \in 1..Len(notes) : notes[i].title = "BREAKING CHANGE"

\* the object literal pushed onto workspace.commits (the guard before it
\* lets no null or empty subject through)
ParsedCommitOf(r, hash) ==
    [subject |-> IF Truthy(r.subject) THEN r.subject[1] ELSE "",
     type |-> r.type[1], scope |-> r.scope[1],
     notes |-> r.notes, breaking |-> BreakingOf(r.notes), hash |-> hash]

\* variant: the subject is not part of the guard
SkipCommitSubjectUnchecked(r) ==
    ~Truthy(r.type) \/ ~Truthy(r.scope) \/ ~isAllowedType(r.type[1])

\* the guard of the loop body: the commit is skipped when it fails
SkipCommit(r) ==
    ~Truthy(r.subject) \/ ~Truthy(r.type) \/ ~Truthy(r.scope) \/ ~isAllowedType(r.type[1])

\* property names every object literal inherits from Object.prototype
PrototypeKeys ==
    {"constructor", "toString", "toLocaleString", "valueOf", "hasOwnProperty",
     "isPrototypeOf", "propertyIsEnumerable", "__proto__"}

\* workspaces[scope] finds an inherited member instead of a workspace:
\* pkg is truthy and pkg.commits is undefined, so pkg.commits.push throws
LookupThrows(r, keys) ==
    /\ ~SkipCommit(r)
    /\ r.scope[1] \notin Range(keys)
    /\ r.scope[1] \in PrototypeKeys

\* the commit reaches the getChangedFiles call
CallsGit(r, commit) ==
    /\ ~SkipCommit(r)
    /\ r.scope[1] = "deps"
    /\ isDependabotGroupCommit(r.subject[1], r.scope[1])
    /\ Truthy(commit.hash)

\* variant: the direct scope match passes over private workspaces
PushTargetsPublicOnly(r, commit, keys, workspaces, rootPath, changedFiles, diffOf) ==
    LET scope == r.scope[1]
        subject == r.subject[1]
        direct == IF \E k \in 1..Len(keys) : keys[k] = scope /\ ~workspaces[scope].isPrivate
                  THEN <<scope>> ELSE <<>>
        grouped == getAffectedWorkspacesFromChangedFiles(
                       changedFiles, keys, workspaces, rootPath, diffOf)
        deps == IF scope # "deps" THEN <<>>
                ELSE IF CallsGit(r, commit)
                     THEN SelectSeq(grouped, LAMBDA k : ~workspaces[k].isPrivate)
                     ELSE IndividualUpdate(keys, workspaces, subject)
    IN  IF SkipCommit(r) THEN <<>> ELSE direct \o deps

\* variant: the changed files are requested for every grouped subject
GitCallsOfAnyGroup(r, commit, keys, workspaces, rootPath, changedFiles) ==
    IF ~SkipCommit(r) /\ r.scope[1] = "deps"
       /\ isDependabotGroupCommit(r.subject[1], r.scope[1])
    THEN << <<"getChangedFiles", IF Truthy(commit.hash) THEN commit.hash[1] ELSE "">> >>
         \o AllFileDiffCalls(changedFiles, keys, workspaces, rootPath)
    ELSE <<>>

\* the git calls one iteration of the loop makes
GitCallsOf(r, commit, keys, workspaces, rootPath, changedFiles) ==
    IF CallsGit(r, commit)
    THEN << <<"getChangedFiles", commit.hash[1]>> >>
         \o AllFileDiffCalls(changedFiles, keys, workspaces, rootPath)
    ELSE <<>>

\* the workspaces one commit is pushed to, in push order: the direct scope
\* match first, then the dependency-update handling
PushTargets(r, commit, keys, workspaces, rootPath, changedFiles, diffOf) ==
    LET scope == r.scope[1]
        subject == r.subject[1]
        direct == IF \E k \in 1..Len(keys) : keys[k] = scope THEN <<scope>> ELSE <<>>
        grouped == getAffectedWorkspacesFromChangedFiles(
                       changedFiles, keys, workspaces, rootPath, diffOf)
        deps == IF scope # "deps" THEN <<>>
                ELSE IF CallsGit(r, commit)
                     THEN SelectSeq(grouped, LAMBDA k : ~workspaces[k].isPrivate)
                     ELSE IndividualUpdate(keys, workspaces, subject)
    IN  IF SkipCommit(r) THEN <<>> ELSE direct \o deps

\* variant: the entry is appended but the changed flag is left alone
RECURSIVE PushAllNoFlag(_, _, _)
PushAllNoFlag(workspaces, targets, entry) ==
    IF targets = <<>> THEN workspaces
    ELSE PushAllNoFlag([workspaces EXCEPT ![Head(targets)].commits = Append(@, entry)],
                       Tail(targets), entry)

\* variant: the flag is assigned from the current commit alone
ChangedAfterLast(workspaceChanged, targets) == targets # <<>>

\* workspaceChanged = true next to every push, false at the start
ChangedAfter(workspaceChanged, targets) == workspaceChanged \/ targets # <<>>

\* variant: the entry is put in front of the list
RECURSIVE PushAllFront(_, _, _)
PushAllFront(workspaces, targets, entry) ==
    IF targets = <<>> THEN workspaces
    ELSE PushAllFront([workspaces EXCEPT ![Head(targets)].changed = TRUE,
                                         ![Head(targets)].commits = <<entry>> \o @],
                      Tail(targets), entry)

RECURSIVE PushAll(_, _, _)
PushAll(workspaces, targets, entry) ==
    IF targets = <<>> THEN workspaces
    ELSE PushAll([workspaces EXCEPT ![Head(targets)].changed = TRUE,
                                    ![Head(targets)].commits = Append(@, entry)],
                 Tail(targets), entry)

(* ------------------------------------------------------------------ *)
(* bump.ts                                                             *)
(* ------------------------------------------------------------------ *)
\* the for loop: the first commit whose type maps to minor ends the scan
RECURSIVE MinorScan(_)
MinorScan(parsedCommits) ==
    IF parsedCommits = <<>> THEN "patch"
    ELSE IF ChangeTypeMapping[Head(parsedCommits).type] = "minor" THEN "minor"
    ELSE MinorScan(Tail(parsedCommits))

\* variant: the minor scan runs first and a breaking commit only lifts patch
determineVersionBumpTypeMinorFirst(parsedCommits) ==
    IF MinorScan(parsedCommits) = "minor" THEN "minor"
    ELSE IF \E i \in 1..Len(parsedCommits) : parsedCommits[i].breaking THEN "major"
    ELSE "patch"

determineVersionBumpType(parsedCommits) ==
    IF \E i \in 1..Len(parsedCommits) : parsedCommits[i].breaking
    THEN "major"
    ELSE MinorScan(parsedCommits)

(* ------------------------------------------------------------------ *)
(* semver: parse and inc, for versions v?N.N.N[-id(.id)*]              *)
(* ------------------------------------------------------------------ *)
Digits == "0123456789"

IsDigit(c) == \E i \in 1..10 : CharAt(Digits, i) = c

DigitVal(c) == (CHOOSE i \in 1..10 : CharAt(Digits, i) = c) - 1

\* a numeric identifier: 0|[1-9]\d*
IsNumeric(s) ==
    /\ Len(s) >= 1
    /\ \A i \in 1..Len(s) : IsDigit(CharAt(s, i))
    /\ (Len(s) > 1 => CharAt(s, 1) # "0")

RECURSIVE ToNat(_)
ToNat(s) ==
    IF Len(s) = 0 THEN 0
    ELSE 10 * ToNat(SubSeq(s, 1, Len(s) - 1)) + DigitVal(CharAt(s, Len(s)))

RECURSIVE ToStr(_)
ToStr(n) ==
    IF n < 10 THEN CharAt(Digits, n + 1)
    ELSE ToStr(n \div 10) \o CharAt(Digits, (n % 10) + 1)

RECURSIVE SplitOn(_, _)
SplitOn(s, c) ==
    LET k == IndexOfChar(s, c, 1)
    IN  IF k > Len(s) THEN <<s>>
        ELSE <<SubSeq(s, 1, k - 1)>> \o SplitOn(SubSeq(s, k + 1, Len(s)), c)

\* a prerelease identifier: numeric, or [a-zA-Z0-9-]+ with a non-digit
IsPrereleaseId(s) ==
    /\ Len(s) >= 1
    /\ \A i \in 1..Len(s) : (IsWordChar(CharAt(s, i)) /\ CharAt(s, i) # "_") \/ CharAt(s, i) = "-"
    /\ ((\A i \in 1..Len(s) : IsDigit(CharAt(s, i))) => IsNumeric(s))

\* semver.parse: <<>> (null) or <<[major, minor, patch, prerelease]>>
SemverParse(v) ==
    LET body == IF StartsWith(v, "v") THEN SubSeq(v, 2, Len(v)) ELSE v
        dash == IndexOfChar(body, "-", 1)
        main == SplitOn(SubSeq(body, 1, dash - 1), ".")
        pre == IF dash > Len(body) THEN <<>> ELSE SplitOn(SubSeq(body, dash + 1, Len(body)), ".")
    IN  IF /\ Len(main) = 3
           /\ \A i \in 1..3 : IsNumeric(main[i])
           /\ \A i \in 1..Len(pre) : IsPrereleaseId(pre[i])
        THEN <<[major |-> ToNat(main[1]), minor |-> ToNat(main[2]),
                patch |-> ToNat(main[3]), prerelease |-> pre]>>
        ELSE <<>>

RECURSIVE JoinDots(_)
JoinDots(ids) ==
    IF Len(ids) = 1 THEN ids[1] ELSE ids[1] \o "." \o JoinDots(Tail(ids))

\* SemVer.format()
SemverFormat(sv) ==
    ToStr(sv.major) \o "." \o ToStr(sv.minor) \o "." \o ToStr(sv.patch)
    \o (IF sv.prerelease = <<>> THEN "" ELSE "-" \o JoinDots(sv.prerelease))

\* SemVer.inc(release) for the plain releases of a version without prerelease
IncPlain(sv, release) ==
    IF release = "major" THEN [sv EXCEPT !.major = @ + 1, !.minor = 0, !.patch = 0]
    ELSE IF release = "minor" THEN [sv EXCEPT !.minor = @ + 1, !.patch = 0]
    ELSE [sv EXCEPT !.patch = @ + 1]

\* inc(version, premajor|preminor|prepatch, prerelease[0], false).
\* semver parses a numeric identifier to a number. A string third argument
\* is taken as the identifier (with identifierBase false) and the
\* prerelease becomes [identifier]; a number is taken as the options
\* argument, so the increment runs without identifier and the prerelease
\* becomes [0].
IncPre(sv, release, identifier) ==
    [IncPlain(sv, release) EXCEPT
        !.prerelease = IF IsNumeric(identifier) THEN <<"0">> ELSE <<identifier>>]

(* ------------------------------------------------------------------ *)
(* Inputs                                                              *)
(* ------------------------------------------------------------------ *)
root == "/r"

\* options.type: absent, empty, two of the bump types, and an unknown word
TypeOptions == {Null, Some(""), Some("major"), Some("minor"), Some("huge")}

\* getLastTag: no tag, a release, a prerelease, a tag that is no version
Tags == {Null, Some("v1.2.3"), Some("v1.2.3-alpha.1"), Some("v1.2.3-1"), Some("latest")}

\* the version field of the root package.json
PkgVersions == {Null, Some("0.3.0"), Some("next")}

\* readWorkspaces results as built in workspace.ts (changed false, no
\* commits): a two-package repository with a private package, and a
\* single-package repository whose workspace is the root
Workspace(path, deps, private) ==
    [path |-> path, changed |-> FALSE, commits |-> <<>>,
     dependencyNames |-> deps, isPrivate |-> private]

WorkspaceMaps ==
    { [keys |-> <<"a", "b">>,
       map |-> [a |-> Workspace("/r/packages/a", <<"lodash", "lodash-es">>, FALSE),
                b |-> Workspace("/r/packages/b", <<"lodash">>, TRUE)]],
      [keys |-> <<"a">>,
       map |-> [a |-> Workspace("/r", <<"vitest">>, FALSE)]] }

\* commits as getCommitsSinceTag builds them: {hash, subject, body}
Raw(hash, subject, body) == [hash |-> hash, subject |-> subject, body |-> body]

RawCommits ==
    { Raw(Some("h1"), Some("feat(a): add x"), ""),
      Raw(Some("h1"), Some("chore(a): add x"), "BREAKING CHANGE: y"),
      Raw(Some("h1"), Some("fix(a): add x"), "BREAKING CHANGES: y"),
      Raw(Some("h1"), Some("chore(a)!: add x"), ""),
      Raw(Some("h1"), Some("feat(a)!: add x"), "BREAKING CHANGES: y"),
      Raw(Some("h1"), Some("fix(b): add x"), ""),
      Raw(Some("h1"), Some("chore(deps): bump lodash-es from 1 to 2"), ""),
      Raw(Some("h1"), Some("chore(deps): bump the lodash group with 2 updates"), ""),
      Raw(Null, Some("chore(deps): bump the lodash group with 2 updates"), ""),
      Raw(Some("h1"), Some("feat(a): "), "BREAKING CHANGE: y"),
      Raw(Some("h1"), Some("wip(a)!: add x"), ""),
      Raw(Some("h1"), Some("Merge branch main"), ""),
      Raw(Some("h1"), Some("feat: add x"), ""),
      Raw(Some("h1"), Some("chore(a): bump version to 1.0.0"), ""),
      Raw(Some("h1"), Some("docs(a): add x"), ""),
      Raw(Some("h1"), Some("feat(constructor): add x"), "") }

\* parser.parse(`${commit.subject}\n\n${commit.body}`) of every commit above
ParsedTable == { <<c, parse(Template(c.subject) \o "\n\n" \o c.body)>> : c \in RawCommits }

Parsed(commit) == (CHOOSE p \in ParsedTable : p[1] = commit)[2]

\* getChangedFiles results
ChangedFileLists ==
    { <<>>, <<"package.json", "packages/a/package.json", "packages/b/package.json", "README.md">> }

\* what git answers during one iteration: the changed files and the diff of
\* each of them when the iteration reaches getChangedFiles, nothing otherwise
GitAnswers(r, commit) ==
    IF CallsGit(r, commit) THEN ChangedFileLists \X Diffs ELSE {<<<<>>, DiffDev>>}

(* ------------------------------------------------------------------ *)
(* State                                                               *)
(* ------------------------------------------------------------------ *)
VARIABLES
    pc,               \* position in processMonorepo
    outcome,          \* how the run ended
    type,             \* options.type
    dryRun,           \* options.dryRun
    lastTag,          \* result of getLastTag
    todo,             \* commits of getCommitsSinceTag not yet visited by the loop
    cur,              \* the commit the loop of parseCommits visited last
    pushed,           \* the workspaces that iteration pushed the commit to
    keys,             \* Object.keys(workspaces), in insertion order
    workspaces,       \* the workspace records, mutated in place
    workspaceChanged, \* local of parseCommits, returned to processMonorepo
    bumpType,         \* local of processMonorepo
    newVersion,       \* local of processMonorepo
    calls,            \* collaborator calls made so far, in order
    parsedCommits,    \* argument of a direct determineVersionBumpType call
    result,           \* return value of a directly called function
    gitCalls,         \* getChangedFiles/getFileDiff calls of the latest loop iteration
    gitAnswer,        \* what git answers a directly called grouped update
    disk,             \* files a directly called writer reads and writes
    original          \* the content of a changelog before the first update

vars == <<pc, outcome, type, dryRun, lastTag, todo, cur, pushed, keys, workspaces,
          workspaceChanged, bumpType, newVersion, calls, parsedCommits, result,
                   gitCalls, gitAnswer, disk, original>>

NoCommit == Raw(Null, Null, "")

Init ==
    /\ pc = "start"
    /\ outcome = "running"
    /\ type \in TypeOptions
    /\ dryRun \in BOOLEAN
    /\ lastTag = Null
    /\ todo = 0
    /\ cur = NoCommit
    /\ pushed = <<>>
    /\ keys = <<>>
    /\ workspaces = <<>>
    /\ workspaceChanged = FALSE
    /\ bumpType = "none"
    /\ newVersion = Null
    /\ calls = <<>>
    /\ parsedCommits = <<>>
    /\ result = "none"
    /\ gitCalls = <<>>
    /\ gitAnswer = <<>>
    /\ disk = <<>>
    /\ original = <<>>

(* ------------------------------------------------------------------ *)
(* processMonorepo                                                     *)
(* ------------------------------------------------------------------ *)
\* if (type && !Object.keys(TypeHierarchy).includes(type)) { error; return }
ValidTypeCheck(t) == Truthy(t) /\ t[1] \notin DOMAIN TypeHierarchy

\* variant: the error is logged but the return is missing
ValidateTypeNoReturn ==
    /\ pc = "start"
    /\ calls' = IF ValidTypeCheck(type) THEN Append(calls, "logger.error") ELSE calls
    /\ pc' = "getLastTag"
    /\ UNCHANGED <<outcome, type, dryRun, lastTag, todo, cur, pushed, keys, workspaces,
                   workspaceChanged, bumpType, newVersion, parsedCommits, result,
                   gitCalls, gitAnswer, disk, original>>

ValidateType ==
    /\ pc = "start"
    /\ IF ValidTypeCheck(type)
       THEN /\ calls' = Append(calls, "logger.error")
            /\ outcome' = "rejected"
            /\ pc' = "done"
       ELSE /\ pc' = "getLastTag"
            /\ UNCHANGED <<calls, outcome>>
    /\ UNCHANGED <<type, dryRun, lastTag, todo, cur, pushed, keys, workspaces,
                   workspaceChanged, bumpType, newVersion, parsedCommits, result,
                   gitCalls, gitAnswer, disk, original>>

GetLastTag ==
    /\ pc = "getLastTag"
    /\ \E t \in Tags : lastTag' = t
    /\ calls' = Append(calls, "getLastTag")
    /\ pc' = "getCommitsSinceTag"
    /\ UNCHANGED <<outcome, type, dryRun, todo, cur, pushed, keys, workspaces,
                   workspaceChanged, bumpType, newVersion, parsedCommits, result,
                   gitCalls, gitAnswer, disk, original>>

\* the array returned has between 0 and MaxCommits elements; each element
\* is drawn when the loop of parseCommits reaches it
GetCommitsSinceTag ==
    /\ pc = "getCommitsSinceTag"
    /\ \E n \in 0..MaxCommits : todo' = n
    /\ calls' = Append(calls, "getCommitsSinceTag")
    /\ pc' = "readWorkspaces"
    /\ UNCHANGED <<outcome, type, dryRun, lastTag, cur, pushed, keys, workspaces,
                   workspaceChanged, bumpType, newVersion, parsedCommits, result,
                   gitCalls, gitAnswer, disk, original>>

ReadWorkspaces ==
    /\ pc = "readWorkspaces"
    /\ \E m \in WorkspaceMaps : keys' = m.keys /\ workspaces' = m.map
    /\ calls' = Append(calls, "readWorkspaces")
    /\ pc' = "parseCommits"
    /\ UNCHANGED <<outcome, type, dryRun, lastTag, todo, cur, pushed,
                   workspaceChanged, bumpType, newVersion, parsedCommits, result,
                   gitCalls, gitAnswer, disk, original>>

\* one iteration of the for loop of parseCommits
ParseCommit ==
    /\ pc = "parseCommits"
    /\ todo > 0
    /\ \E commit \in RawCommits :
         \E answer \in GitAnswers(Parsed(commit), commit) :
            LET changedFiles == answer[1]
                diffOf == [f \in Range(changedFiles) |-> answer[2]]
                r == Parsed(commit)
                targets == PushTargets(r, commit, keys, workspaces, root, changedFiles, diffOf)
            IN  /\ cur' = commit
                /\ gitCalls' = GitCallsOf(r, commit, keys, workspaces, root, changedFiles)
                /\ IF LookupThrows(r, keys)
                   THEN /\ pushed' = <<>>
                        /\ outcome' = "threw"
                        /\ pc' = "done"
                        /\ UNCHANGED <<workspaces, workspaceChanged>>
                   ELSE /\ pushed' = targets
                        /\ workspaces' =
                               IF targets = <<>> THEN workspaces
                               ELSE PushAll(workspaces, targets, ParsedCommitOf(r, commit.hash))
                        /\ workspaceChanged' = ChangedAfter(workspaceChanged, targets)
                        /\ UNCHANGED <<pc, outcome>>
    /\ todo' = todo - 1
    /\ UNCHANGED <<type, dryRun, lastTag, keys, bumpType,
                   newVersion, calls, parsedCommits, result, gitAnswer, disk, original>>

\* variant: no early return when nothing changed
CheckChangedNoSkip ==
    /\ pc = "parseCommits"
    /\ todo = 0
    /\ pc' = "bumpType"
    /\ calls' = Append(calls, "parseCommits")
    /\ cur' = NoCommit
    /\ pushed' = <<>>
    /\ gitCalls' = <<>>
    /\ UNCHANGED <<outcome, type, dryRun, lastTag, todo, keys, workspaces,
                   workspaceChanged, bumpType, newVersion, parsedCommits, result,
                   gitAnswer, disk, original>>

\* parseCommits returns (its loop variable goes out of scope);
\* if (!workspaceChanged && !type) { info; return }
CheckChanged ==
    /\ pc = "parseCommits"
    /\ todo = 0
    /\ IF ~workspaceChanged /\ ~Truthy(type)
       THEN /\ outcome' = "skipped"
            /\ pc' = "done"
       ELSE /\ pc' = "bumpType"
            /\ UNCHANGED outcome
    /\ calls' = Append(calls, "parseCommits")
    /\ cur' = NoCommit
    /\ pushed' = <<>>
    /\ gitCalls' = <<>>
    /\ UNCHANGED <<type, dryRun, lastTag, todo, keys, workspaces,
                   workspaceChanged, bumpType, newVersion, parsedCommits, result,
                   gitAnswer, disk, original>>

\* variant: every changed workspace overwrites the running value
RECURSIVE MaxBumpLoopLast(_, _, _)
MaxBumpLoopLast(ks, ws, maxBumpType) ==
    IF ks = <<>> THEN maxBumpType
    ELSE LET w == ws[Head(ks)]
         IN  IF ~w.changed THEN MaxBumpLoopLast(Tail(ks), ws, maxBumpType)
             ELSE MaxBumpLoopLast(Tail(ks), ws, determineVersionBumpType(w.commits))

\* the loop over Object.values(workspacesWithCommits): the running maximum
RECURSIVE MaxBumpLoop(_, _, _)
MaxBumpLoop(ks, ws, maxBumpType) ==
    IF ks = <<>> THEN maxBumpType
    ELSE LET w == ws[Head(ks)]
             b == determineVersionBumpType(w.commits)
         IN  IF ~w.changed THEN MaxBumpLoop(Tail(ks), ws, maxBumpType)
             ELSE IF TypeHierarchy[b] > TypeHierarchy[maxBumpType]
                  THEN MaxBumpLoop(Tail(ks), ws, b)
                  ELSE MaxBumpLoop(Tail(ks), ws, maxBumpType)

\* one "determineVersionBumpType" call per changed workspace
BumpCalls(ks, ws) ==
    [i \in 1..Len(SelectSeq(ks, LAMBDA k : ws[k].changed)) |-> "determineVersionBumpType"]

\* variant: the override is used only when no workspace changed
DecideBumpTypeCommitsFirst ==
    /\ pc = "bumpType"
    /\ IF Truthy(type) /\ ~workspaceChanged
       THEN /\ bumpType' = type[1]
            /\ UNCHANGED calls
       ELSE /\ bumpType' = MaxBumpLoop(keys, workspaces, "patch")
            /\ calls' = calls \o BumpCalls(keys, workspaces)
    /\ pc' = "newVersion"
    /\ UNCHANGED <<outcome, type, dryRun, lastTag, todo, cur, pushed, keys, workspaces,
                   workspaceChanged, newVersion, parsedCommits, result,
                   gitCalls, gitAnswer, disk, original>>

\* if (type) bumpType = type; else bumpType = the loop's maximum
DecideBumpType ==
    /\ pc = "bumpType"
    /\ IF Truthy(type)
       THEN /\ bumpType' = type[1]
            /\ UNCHANGED calls
       ELSE /\ bumpType' = MaxBumpLoop(keys, workspaces, "patch")
            /\ calls' = calls \o BumpCalls(keys, workspaces)
    /\ pc' = "newVersion"
    /\ UNCHANGED <<outcome, type, dryRun, lastTag, todo, cur, pushed, keys, workspaces,
                   workspaceChanged, newVersion, parsedCommits, result,
                   gitCalls, gitAnswer, disk, original>>

\* currentVersion: parse(lastTag) when a tag exists (null for a tag that is
\* no version), otherwise parse(pkg.version || '0.0.0') || parse('0.0.0')
\* variant: an unparseable tag falls back to 0.0.0 like the package.json path
CurrentVersionWithFallback(tag, pkgVersion) ==
    LET v == IF Truthy(tag) THEN tag[1]
             ELSE IF Truthy(pkgVersion) THEN pkgVersion[1] ELSE "0.0.0"
    IN  IF SemverParse(v) # <<>> THEN SemverParse(v) ELSE SemverParse("0.0.0")

CurrentVersion(tag, pkgVersion) ==
    IF Truthy(tag) THEN SemverParse(tag[1])
    ELSE LET v == IF Truthy(pkgVersion) THEN pkgVersion[1] ELSE "0.0.0"
         IN  IF SemverParse(v) # <<>> THEN SemverParse(v) ELSE SemverParse("0.0.0")

\* inc(currentVersion, premajor|preminor|prepatch, prerelease[0], false) for
\* a prerelease, inc(currentVersion, bumpType, false) otherwise
NextVersion(sv, bump) ==
    IF Len(sv.prerelease) > 0
    THEN SemverFormat(IncPre(sv, bump, sv.prerelease[1]))
    ELSE SemverFormat(IncPlain(sv, bump))

\* reading .prerelease of a null currentVersion throws out of processMonorepo
ComputeNewVersion ==
    /\ pc = "newVersion"
    /\ \E pkgVersion \in PkgVersions :
         LET cv == CurrentVersion(lastTag, pkgVersion)
         IN  /\ calls' = IF Truthy(lastTag) THEN calls ELSE Append(calls, "readFileSync")
             /\ IF cv = <<>>
                THEN /\ outcome' = "threw"
                     /\ pc' = "done"
                     /\ UNCHANGED newVersion
                ELSE /\ newVersion' = Some(NextVersion(cv[1], bumpType))
                     /\ pc' = "dryRun"
                     /\ UNCHANGED outcome
    /\ UNCHANGED <<type, dryRun, lastTag, todo, cur, pushed, keys, workspaces,
                   workspaceChanged, bumpType, parsedCommits, result,
                   gitCalls, gitAnswer, disk, original>>

\* variant: the flag is not consulted
CheckDryRunIgnored ==
    /\ pc = "dryRun"
    /\ pc' = "updateChangelogs"
    /\ UNCHANGED <<outcome, type, dryRun, lastTag, todo, cur, pushed, keys, workspaces,
                   workspaceChanged, bumpType, newVersion, calls, parsedCommits, result,
                   gitCalls, gitAnswer, disk, original>>

\* if (dryRun) { info; return }
CheckDryRun ==
    /\ pc = "dryRun"
    /\ IF dryRun
       THEN /\ outcome' = "dryRun"
            /\ pc' = "done"
       ELSE /\ pc' = "updateChangelogs"
            /\ UNCHANGED outcome
    /\ UNCHANGED <<type, dryRun, lastTag, todo, cur, pushed, keys, workspaces,
                   workspaceChanged, bumpType, newVersion, calls, parsedCommits, result,
                   gitCalls, gitAnswer, disk, original>>

\* the repository URL is read, the version link is built (getFirstCommit
\* when there is no tag) and updateChangelogs is called
UpdateChangelogs ==
    /\ pc = "updateChangelogs"
    /\ calls' = calls \o <<"readFileSync">>
                      \o (IF Truthy(lastTag) THEN <<>> ELSE <<"getFirstCommit">>)
                      \o <<"updateChangelogs">>
    /\ pc' = "bumpVersions"
    /\ UNCHANGED <<outcome, type, dryRun, lastTag, todo, cur, pushed, keys, workspaces,
                   workspaceChanged, bumpType, newVersion, parsedCommits, result,
                   gitCalls, gitAnswer, disk, original>>

BumpVersions ==
    /\ pc = "bumpVersions"
    /\ calls' = Append(calls, "bumpVersions")
    /\ outcome' = "bumped"
    /\ pc' = "done"
    /\ UNCHANGED <<type, dryRun, lastTag, todo, cur, pushed, keys, workspaces,
                   workspaceChanged, bumpType, newVersion, parsedCommits, result,
                   gitCalls, gitAnswer, disk, original>>

Next ==
    \/ ValidateType
    \/ GetLastTag
    \/ GetCommitsSinceTag
    \/ ReadWorkspaces
    \/ ParseCommit
    \/ CheckChanged
    \/ DecideBumpType
    \/ ComputeNewVersion
    \/ CheckDryRun
    \/ UpdateChangelogs
    \/ BumpVersions

Spec == Init /\ [][Next]_vars

(* ------------------------------------------------------------------ *)
(* determineVersionBumpType called directly on an arbitrary list       *)
(* ------------------------------------------------------------------ *)
CommitTypes == DOMAIN ChangeTypeMapping

BreakingNote == [title |-> "BREAKING CHANGE", text |-> "y"]

\* ParsedCommit values as a caller may build them: any type of the closed
\* set, either flag, with or without a breaking note
ParsedCommits ==
    { [subject |-> "test commit", type |-> t, scope |-> "", notes |-> n,
       breaking |-> b, hash |-> Some("abc123")] :
         t \in CommitTypes, n \in {<<>>, <<BreakingNote>>}, b \in BOOLEAN }

RECURSIVE ListsUpTo(_)
ListsUpTo(n) ==
    IF n = 0 THEN {<<>>}
    ELSE ListsUpTo(n - 1) \cup
         { Append(l, c) : l \in { m \in ListsUpTo(n - 1) : Len(m) = n - 1 }, c \in ParsedCommits }

InitBump ==
    /\ pc = "call"
    /\ outcome = "running"
    /\ type = Null
    /\ dryRun = FALSE
    /\ lastTag = Null
    /\ todo = 0
    /\ cur = NoCommit
    /\ pushed = <<>>
    /\ keys = <<>>
    /\ workspaces = <<>>
    /\ workspaceChanged = FALSE
    /\ bumpType = "none"
    /\ newVersion = Null
    /\ calls = <<>>
    /\ parsedCommits \in ListsUpTo(MaxList)
    /\ result = "none"
    /\ gitCalls = <<>>
    /\ gitAnswer = <<>>
    /\ disk = <<>>
    /\ original = <<>>

CallDetermine ==
    /\ pc = "call"
    /\ result' = determineVersionBumpType(parsedCommits)
    /\ pc' = "returned"
    /\ UNCHANGED <<outcome, type, dryRun, lastTag, todo, cur, pushed, keys, workspaces,
                   workspaceChanged, bumpType, newVersion, calls, parsedCommits,
                   gitCalls, gitAnswer, disk, original>>

NextBump == CallDetermine

SpecBump == InitBump /\ [][NextBump]_vars

(* ------------------------------------------------------------------ *)
(* Properties                                                          *)
(* ------------------------------------------------------------------ *)
Last(seq) == seq[Len(seq)]

\* the text of the visited commit, read without the parser
Header(c) == Template(c.subject)

HasBang(c) == Includes(Header(c), "!: ")

\* the body has a footer line `BREAKING CHANGE: ...`
HasBreakingFooter(c) ==
    \E line \in Range(SplitLines(c.body)) : StartsWith(line, "BREAKING CHANGE: ")

\* the header is <allowed type>(<workspace key>): <non-empty subject>,
\* with or without `!` before the colon
ScopedTo(c, k) ==
    \E t \in DOMAIN ChangeTypeMapping, sep \in {": ", "!: "} :
        /\ StartsWith(Header(c), t \o "(" \o k \o ")" \o sep)
        /\ Len(Header(c)) > Len(t \o "(" \o k \o ")" \o sep)

\* the loop of parseCommits has just visited a commit
Visited == pc = "parseCommits" /\ cur # NoCommit

\* C1: after parseCommits, starting from workspaces with changed=false and
\* no commits, a workspace has changed = true if and only if its commits
\* list is non-empty.
C1_ChangedIffCommits ==
    \A k \in Range(keys) : workspaces[k].changed <=> (workspaces[k].commits # <<>>)

C1_Witness ==
    /\ pc = "bumpType"
    /\ \E k \in Range(keys) : workspaces[k].changed /\ Len(workspaces[k].commits) = 2
    /\ \E k \in Range(keys) : ~workspaces[k].changed

\* C2 as claimed: a commit without `!` before the colon is recorded with
\* breaking = false even when its body has a BREAKING CHANGE footer.
C2_NoBangNeverBreaking ==
    (Visited /\ ~HasBang(cur)) =>
        \A k \in Range(pushed) : Last(workspaces[k].commits).breaking = FALSE

\* C2 amended: a commit without `!` before the colon is recorded with
\* breaking = true exactly when its body has a footer titled exactly
\* BREAKING CHANGE; the note is stored, and determineVersionBumpType on the
\* recorded commit returns major in that case and the bump of its type
\* otherwise.
C2_NoBangBreakingIffFooter ==
    (Visited /\ ~HasBang(cur)) =>
        \A k \in Range(pushed) :
            LET e == Last(workspaces[k].commits)
            IN  /\ e.breaking <=> HasBreakingFooter(cur)
                /\ HasBreakingFooter(cur) =>
                       \E i \in 1..Len(e.notes) : e.notes[i].title = "BREAKING CHANGE"
                /\ determineVersionBumpType(<<e>>) =
                       IF HasBreakingFooter(cur) THEN "major" ELSE ChangeTypeMapping[e.type]

C2_Witness ==
    /\ Visited
    /\ cur.subject = Some("chore(a): add x")
    /\ cur.body = "BREAKING CHANGE: y"
    /\ pushed = <<"a">>
    /\ Last(workspaces["a"].commits).breaking

C4_BangSetsBreaking ==
    \A k \in Range(keys) :
        (Visited /\ HasBang(cur) /\ ScopedTo(cur, k)) =>
            /\ k \in Range(pushed)
            /\ Last(workspaces[k].commits).breaking = TRUE

\* C5: determineVersionBumpType returns major if any commit has
\* breaking = true, whatever the types and notes; otherwise minor if any
\* commit's type is feat, feature or improv; otherwise patch, also for the
\* empty list.
C5_BumpRule ==
    pc = "returned" =>
        result = IF \E c \in Range(parsedCommits) : c.breaking THEN "major"
                 ELSE IF \E c \in Range(parsedCommits) : c.type \in {"feat", "feature", "improv"}
                      THEN "minor"
                 ELSE "patch"

C5_Witness ==
    /\ pc = "returned"
    /\ result = "major"
    /\ Len(parsedCommits) = 2
    /\ parsedCommits[1].type = "feat" /\ ~parsedCommits[1].breaking
    /\ parsedCommits[2].type = "chore" /\ parsedCommits[2].breaking

\* positions of processMonorepo after the bump type has been decided
Decided == pc \in {"newVersion", "dryRun", "updateChangelogs", "bumpVersions"} \/ bumpType # "none"

Rank(b) == TypeHierarchy[b]

ChangedKeys == { k \in Range(keys) : workspaces[k].changed }

Called(name) == name \in Range(calls)

\* C6: without an override, the bump type processMonorepo applies is the
\* maximum (patch < minor < major) of determineVersionBumpType over exactly
\* the changed workspaces: it is the bump of some changed workspace and no
\* changed workspace's bump is higher.
C6_MaxOverChanged ==
    (Decided /\ ~Truthy(type)) =>
        /\ \A k \in ChangedKeys :
               Rank(bumpType) >= Rank(determineVersionBumpType(workspaces[k].commits))
        /\ \E k \in ChangedKeys :
               bumpType = determineVersionBumpType(workspaces[k].commits)

C6_Witness ==
    /\ pc = "newVersion"
    /\ type = Null
    /\ keys = <<"a", "b">>
    /\ ChangedKeys = {"a", "b"}
    /\ determineVersionBumpType(workspaces["a"].commits) = "minor"
    /\ determineVersionBumpType(workspaces["b"].commits) = "patch"
    /\ bumpType = "minor"

\* C7: when parseCommits reports no changed workspace and there is no
\* override, the run ends skipped: no bump type is chosen, no version is
\* computed, and determineVersionBumpType, updateChangelogs and bumpVersions
\* are not called.
C7_SkipWhenNothingChanged ==
    (~Truthy(type) /\ ~workspaceChanged) =>
        /\ pc \in {"start", "getLastTag", "getCommitsSinceTag", "readWorkspaces",
                   "parseCommits", "done"}
        /\ ((pc = "done" /\ Called("parseCommits")) => outcome = "skipped")
        /\ outcome \notin DOMAIN TypeHierarchy
        /\ bumpType = "none"
        /\ newVersion = Null
        /\ ~Called("determineVersionBumpType")
        /\ ~Called("updateChangelogs")
        /\ ~Called("bumpVersions")

C7_Witness ==
    /\ pc = "done"
    /\ outcome = "skipped"
    /\ type = Null
    /\ keys = <<"a", "b">>
    /\ calls = <<"getLastTag", "getCommitsSinceTag", "readWorkspaces", "parseCommits">>

\* C8 as claimed: a supplied type that is not major, minor or patch is
\* rejected before any git query, workspace read or file write.
C8_AnyOtherTypeRejected ==
    (type # Null /\ type[1] \notin {"major", "minor", "patch"}) =>
        /\ pc \in {"start", "done"}
        /\ (pc = "done" => outcome = "rejected")
        /\ Range(calls) \subseteq {"logger.error"}

\* C8 amended: a supplied non-empty type that is not major, minor or patch
\* is rejected (the error is logged) before any git query, workspace read
\* or file write.
C8_NonEmptyOtherTypeRejected ==
    (Truthy(type) /\ type[1] \notin {"major", "minor", "patch"}) =>
        /\ pc \in {"start", "done"}
        /\ (pc = "done" => outcome = "rejected" /\ calls = <<"logger.error">>)
        /\ Range(calls) \subseteq {"logger.error"}
        /\ keys = <<>>

C8_Witness ==
    /\ pc = "done"
    /\ outcome = "rejected"
    /\ type = Some("huge")
    /\ calls = <<"logger.error">>

\* C9: with a valid override, the bump type is exactly the override,
\* determineVersionBumpType is never called, and the run is never skipped,
\* also when no workspace changed.
C9_OverrideUsedAsIs ==
    (type # Null /\ type[1] \in {"major", "minor", "patch"}) =>
        /\ ~Called("determineVersionBumpType")
        /\ outcome \notin {"skipped", "rejected"}
        /\ (Decided => bumpType = type[1])

C9_Witness ==
    /\ pc = "done"
    /\ outcome = "bumped"
    /\ type = Some("major")
    /\ ~workspaceChanged
    /\ lastTag = Some("v1.2.3")
    /\ newVersion = Some("2.0.0")

\* C10: with dryRun set, nothing is written (updateChangelogs and
\* bumpVersions are never called), and a run that returns at the dry-run
\* check has parsed the commits, decided the bump type and computed the new
\* version.
C10_DryRunWritesNothing ==
    dryRun =>
        /\ ~Called("updateChangelogs")
        /\ ~Called("bumpVersions")
        /\ ~Called("getFirstCommit")
        /\ pc \notin {"updateChangelogs", "bumpVersions"}
        /\ outcome # "bumped"
        /\ (pc = "dryRun" \/ outcome = "dryRun") =>
               /\ Called("parseCommits")
               /\ bumpType \in DOMAIN TypeHierarchy
               /\ newVersion # Null

C10_Witness ==
    /\ pc = "done"
    /\ outcome = "dryRun"
    /\ type = Null
    /\ bumpType = "minor"
    /\ lastTag = Some("v1.2.3")
    /\ newVersion = Some("1.3.0")

\* exactly one workspace, whose path is the root path
IsSingleWorkspace == Len(keys) = 1 /\ workspaces[keys[1]].path = root

\* the header of the visited commit carries a type of the closed set
HasAllowedType(c) ==
    \E t \in DOMAIN ChangeTypeMapping, sep \in {": ", "!: ", "("} : StartsWith(Header(c), t \o sep)

\* the header of the visited commit has no (scope)
Scopeless(c) ==
    \E t \in DOMAIN ChangeTypeMapping, sep \in {": ", "!: "} : StartsWith(Header(c), t \o sep)

\* C11: in a single-workspace repository every commit with an allowed type
\* is appended to the sole workspace, with the workspace's key as its scope
\* when the header has none, and workspaceChanged is set.
C11_SingleWorkspaceTakesAll ==
    (Visited /\ IsSingleWorkspace /\ HasAllowedType(cur)) =>
        /\ pushed # <<>>
        /\ pushed[1] = keys[1]
        /\ Scopeless(cur) => Last(workspaces[keys[1]].commits).scope = keys[1]
        /\ workspaceChanged

\* chore commits whose header subject, trimmed, is `bump version` or
\* `bump version to <version>`
IsVersionBump(c) ==
    \E scope \in {"", "(a)", "(b)"}, tail \in {"", " to 1.0.0"} :
        Header(c) = "chore" \o scope \o ": bump version" \o tail

\* C12: a chore commit whose subject is `bump version` or `bump version to
\* <version>` is never appended to a workspace and sets no changed flag.
C12_VersionBumpNeverRecorded ==
    (Visited /\ IsVersionBump(cur)) =>
        /\ pushed = <<>>
        /\ \A k \in Range(keys) :
               \A i \in 1..Len(workspaces[k].commits) :
                   ~(/\ workspaces[k].commits[i].type = "chore"
                     /\ StartsWith(workspaces[k].commits[i].subject, "bump version"))

\* C20: no workspace's commits list ever holds a commit of type ci, docs,
\* style or test.
C20_NoToolingCommitsStored ==
    \A k \in Range(keys) :
        \A i \in 1..Len(workspaces[k].commits) :
            workspaces[k].commits[i].type \notin {"ci", "docs", "style", "test"}

\* the parser's reading of the visited commit gives nothing to attribute:
\* no header match, a type outside the closed set, no scope, or a scope
\* that is neither a workspace key nor deps
Unattributable(c) ==
    LET r == Parsed(c)
    IN  \/ ~Truthy(r.type)
        \/ ~isAllowedType(r.type[1])
        \/ ~Truthy(r.scope)
        \/ r.scope[1] \notin Range(keys) \cup {"deps"}

\* C14: a commit that fails the header grammar, has a type outside the
\* closed set, has no scope, or has a scope that is neither a workspace key
\* nor deps changes no workspace and raises no error.
C14_UnmatchedCommitIsNoOp ==
    (cur # NoCommit /\ keys # <<>> /\ Unattributable(cur)) =>
        /\ pushed = <<>>
        /\ outcome # "threw"

EmptySubjectFor(c, k) ==
    \E t \in DOMAIN ChangeTypeMapping : Header(c) = t \o "(" \o k \o "): "

\* C15 as claimed: a commit with an allowed type, a workspace key as scope
\* and an empty subject is appended to that workspace with subject "".
C15_EmptySubjectAppended ==
    \A k \in Range(keys) :
        (Visited /\ EmptySubjectFor(cur, k)) =>
            /\ pushed = <<k>>
            /\ Last(workspaces[k].commits).subject = ""

\* C15 amended: such a commit is skipped: nothing is appended for it, and no
\* workspace ever holds a commit with an empty subject.
C15_EmptySubjectSkipped ==
    /\ \A k \in Range(keys) : (Visited /\ EmptySubjectFor(cur, k)) => pushed = <<>>
    /\ \A k \in Range(keys) :
           \A i \in 1..Len(workspaces[k].commits) : workspaces[k].commits[i].subject # ""

C15_Witness ==
    /\ Visited
    /\ keys = <<"a", "b">>
    /\ EmptySubjectFor(cur, "a")
    /\ pushed = <<>>
    /\ workspaces["a"].commits = <<>>
    /\ ~workspaceChanged

\* C16: workspaceChanged is true exactly when some workspace has had a
\* commit appended during the call.
C16_FlagIffSomeCommitAppended ==
    workspaceChanged <=> \E k \in Range(keys) : Len(workspaces[k].commits) > 0

C16_Witness ==
    /\ Visited
    /\ pushed = <<>>
    /\ workspaceChanged
    /\ \E k \in Range(keys) : Len(workspaces[k].commits) = 1

\* C17: dependency-update handling never appends to a private workspace:
\* a deps commit is pushed to no private workspace (unless deps is that
\* workspace's own key), and every commit held by a private workspace has
\* that workspace's key as its scope.
C17_PrivateOnlyByOwnScope ==
    /\ \A k \in Range(keys) :
           workspaces[k].isPrivate =>
               \A i \in 1..Len(workspaces[k].commits) : workspaces[k].commits[i].scope = k
    /\ (Visited /\ StartsWith(Header(cur), "chore(deps): ")) =>
           \A k \in Range(pushed) : ~workspaces[k].isPrivate

C17_Witness ==
    /\ Visited
    /\ keys = <<"a", "b">>
    /\ cur.subject = Some("chore(deps): bump lodash-es from 1 to 2")
    /\ workspaces["b"].isPrivate
    /\ Includes(cur.subject[1], workspaces["b"].dependencyNames[1])
    /\ Range(pushed) = {"a"}
    /\ workspaces["b"].commits = <<>>

\* the last tag without its leading v
TagVersion == IF StartsWith(lastTag[1], "v") THEN SubSeq(lastTag[1], 2, Len(lastTag[1])) ELSE lastTag[1]

\* the first prerelease identifier written in the last tag ("" when the
\* tag has no prerelease part)
TagPrereleaseId ==
    LET dash == IndexOfChar(TagVersion, "-", 1)
        rest == SubSeq(TagVersion, dash + 1, Len(TagVersion))
    IN  IF dash > Len(TagVersion) THEN ""
        ELSE SubSeq(rest, 1, IndexOfChar(rest, ".", 1) - 1)

\* major.minor.patch of the last tag after the bump
TagCoreAfter(bump) ==
    LET dash == IndexOfChar(TagVersion, "-", 1)
        n == SplitOn(SubSeq(TagVersion, 1, dash - 1), ".")
    IN  IF bump = "major" THEN ToStr(ToNat(n[1]) + 1) \o ".0.0"
        ELSE IF bump = "minor" THEN n[1] \o "." \o ToStr(ToNat(n[2]) + 1) \o ".0"
        ELSE n[1] \o "." \o n[2] \o "." \o ToStr(ToNat(n[3]) + 1)

\* C18: for a prerelease current version the new version is the bumped
\* major.minor.patch followed by exactly the first prerelease identifier of
\* the current version (v1.2.3-alpha.1 + minor = 1.3.0-alpha); without a
\* prerelease part it is the plain increment.
C18_PrereleaseIdentifierKept ==
    (Truthy(lastTag) /\ newVersion # Null) =>
        newVersion[1] = TagCoreAfter(bumpType)
                        \o (IF TagPrereleaseId = "" THEN "" ELSE "-" \o TagPrereleaseId)

IndividualCase(c) ==
    /\ c # NoCommit
    /\ ~SkipCommit(Parsed(c))
    /\ Parsed(c).scope = Some("deps")
    /\ ~(isDependabotGroupCommit(Parsed(c).subject[1], "deps") /\ Truthy(c.hash))

\* some dependency name of workspace k occurs in the subject of c
NamesDependencyOf(c, k) ==
    \E i \in 1..Len(workspaces[k].dependencyNames) :
        Includes(Parsed(c).subject[1], workspaces[k].dependencyNames[i])

\* C26: for a deps-scoped commit handled as an individual update, every
\* non-private workspace with a dependency name occurring in the subject
\* receives the commit and is marked changed; every workspace with no such
\* name is left exactly as it was.
C26_IndividualUpdateFanOut ==
    [][(pc = "parseCommits" /\ todo' = todo - 1 /\ IndividualCase(cur')) =>
          \A k \in Range(keys) \ {"deps"} :
              /\ (~workspaces[k].isPrivate /\ NamesDependencyOf(cur', k)) =>
                     /\ k \in Range(pushed')
                     /\ workspaces'[k].changed
                     /\ Len(workspaces'[k].commits) > Len(workspaces[k].commits)
                     /\ Last(workspaces'[k].commits).subject = Parsed(cur').subject[1]
                     /\ Last(workspaces'[k].commits).hash = cur'.hash
              /\ ~NamesDependencyOf(cur', k) =>
                     /\ k \notin Range(pushed')
                     /\ workspaces'[k] = workspaces[k]]_vars

C26_Witness ==
    /\ Visited
    /\ IndividualCase(cur)
    /\ keys = <<"a", "b">>
    /\ NamesDependencyOf(cur, "a")
    /\ "a" \in Range(pushed)
    /\ workspaces["a"].changed
    /\ Last(workspaces["a"].commits).hash = cur.hash

\* C28 as claimed: one commit is attributed to a given workspace at most
\* once, so the pushes of one loop iteration name no workspace twice.
C28_NoWorkspaceTwicePerCommit ==
    Visited => \A i, j \in 1..Len(pushed) : pushed[i] = pushed[j] => i = j

\* C29: parseCommits only appends. In every iteration each commits list
\* keeps its former entries as a prefix, a changed flag that was true stays
\* true, and whatever is added is the entry of the commit in hand, so the
\* additions follow the order of the input sequence.
C29_AppendOnly ==
    [][(pc = "parseCommits" /\ todo' = todo - 1) =>
          /\ keys' = keys
          /\ \A k \in Range(keys) :
                 LET old == workspaces[k].commits
                     new == workspaces'[k].commits
                 IN  /\ Len(new) >= Len(old)
                     /\ SubSeq(new, 1, Len(old)) = old
                     /\ workspaces[k].changed => workspaces'[k].changed
                     /\ \A i \in (Len(old) + 1)..Len(new) :
                            /\ new[i].hash = cur'.hash
                            /\ new[i].subject = Parsed(cur').subject[1]
                            /\ new[i].notes = Parsed(cur').notes]_vars

C29_Witness ==
    /\ Visited
    /\ pushed # <<>>
    /\ \E k \in Range(pushed) :
           /\ Len(workspaces[k].commits) >= 2
           /\ workspaces[k].commits[1].subject # Last(workspaces[k].commits).subject
           /\ Last(workspaces[k].commits).subject = Parsed(cur).subject[1]

\* a deps-scoped commit with a grouped-update subject and no hash
GroupedWithoutHash(c) ==
    /\ IndividualCase(c)
    /\ isDependabotGroupCommit(Parsed(c).subject[1], "deps")
    /\ ~Truthy(c.hash)

\* C30: for a deps-scoped commit whose subject matches the grouped-update
\* pattern but whose hash is absent, no getChangedFiles or getFileDiff call
\* is issued and the commit goes to every non-private workspace that has a
\* dependency name occurring in the subject, and to no other workspace.
C30_GroupedWithoutHashIsIndividual ==
    (Visited /\ GroupedWithoutHash(cur)) =>
        /\ gitCalls = <<>>
        /\ \A k \in Range(keys) \ {"deps"} :
               k \in Range(pushed) <=>
                   (~workspaces[k].isPrivate /\ NamesDependencyOf(cur, k))

C30_Witness ==
    /\ Visited
    /\ GroupedWithoutHash(cur)
    /\ keys = <<"a", "b">>
    /\ gitCalls = <<>>
    /\ pushed = <<"a">>
    /\ workspaces["b"].commits = <<>>

(* ------------------------------------------------------------------ *)
(* hasProductionDependencyChanges called directly on a manifest diff    *)
(* ------------------------------------------------------------------ *)
\* top-level sections a package.json diff can show
SectionNames ==
    {"dependencies", "devDependencies", "peerDependencies", "scripts", "publishConfig"}

MaxSections == 2

\* the sections of one diff, in file order: each section once, with or
\* without an added and a removed line inside it
RECURSIVE ManifestSections(_)
ManifestSections(n) ==
    IF n = 0 THEN {<<>>}
    ELSE ManifestSections(n - 1) \cup
         { Append(m, [name |-> s, changed |-> c]) :
             m \in { l \in ManifestSections(n - 1) : Len(l) = n - 1 },
             s \in SectionNames, c \in BOOLEAN }

DistinctSections(m) == \A i, j \in 1..Len(m) : m[i].name = m[j].name => i = j

\* the unified-diff lines of the sections, as git prints them
RECURSIVE RenderSections(_)
RenderSections(m) ==
    IF m = <<>> THEN ""
    ELSE "   \"" \o Head(m).name \o "\": {\n"
         \o (IF Head(m).changed
             THEN "-    \"x\": \"1\"\n+    \"x\": \"2\"\n"
             ELSE "     \"x\": \"1\"\n")
         \o (IF Len(m) = 1 THEN "   }\n" ELSE "   },\n")
         \o RenderSections(Tail(m))

RenderDiff(m) == "@@ -1,9 +1,9 @@\n {\n   \"name\": \"a\",\n" \o RenderSections(m) \o " }"

InitDiff ==
    /\ pc = "call"
    /\ outcome = "running"
    /\ type = Null
    /\ dryRun = FALSE
    /\ lastTag = Null
    /\ todo = 0
    /\ cur = NoCommit
    /\ pushed = <<>>
    /\ keys = <<>>
    /\ workspaces = <<>>
    /\ workspaceChanged = FALSE
    /\ bumpType = "none"
    /\ newVersion = Null
    /\ calls = <<>>
    /\ parsedCommits = <<>>
    /\ result = "none"
    /\ gitCalls = <<>>
    /\ gitAnswer \in { m \in ManifestSections(MaxSections) : DistinctSections(m) }
    /\ disk = <<>>
    /\ original = <<>>

CallHasProductionDependencyChanges ==
    /\ pc = "call"
    /\ result' = hasProductionDependencyChanges(RenderDiff(gitAnswer))
    /\ pc' = "returned"
    /\ UNCHANGED <<outcome, type, dryRun, lastTag, todo, cur, pushed, keys, workspaces,
                   workspaceChanged, bumpType, newVersion, calls, parsedCommits,
                   gitCalls, gitAnswer, disk, original>>

NextDiff == CallHasProductionDependencyChanges

SpecDiff == InitDiff /\ [][NextDiff]_vars

\* some added or removed line lies inside the "dependencies" block
ChangeInsideDependencies(m) ==
    \E i \in 1..Len(m) : m[i].name = "dependencies" /\ m[i].changed

\* C23 as claimed: hasProductionDependencyChanges returns true only if an
\* added or removed line lies inside the "dependencies" block; a diff whose
\* changes all belong to other sections yields false.
C23_TrueOnlyForDependenciesBlock ==
    pc = "returned" =>
        (result = TRUE => ChangeInsideDependencies(gitAnswer))

(* ------------------------------------------------------------------ *)
(* parseCommits called directly on one grouped dependency update        *)
(* ------------------------------------------------------------------ *)
MaxFiles == 2

\* a project with two public packages and a private one between them
GroupKeys == <<"a", "b", "c">>

GroupProject ==
    [a |-> Workspace("/r/packages/a", <<"lodash", "lodash-es">>, FALSE),
     b |-> Workspace("/r/packages/b", <<"lodash">>, TRUE),
     c |-> Workspace("/r/packages/c", <<"vitest">>, FALSE)]

\* the grouped update handed to parseCommits
GroupCommit == Raw(Some("h1"), Some("chore(deps): bump the lodash group with 2 updates"), "")

\* paths getChangedFiles can report: the root manifest, manifests at and
\* below workspace paths, a manifest outside every workspace, other files
GroupFiles ==
    {"package.json", "packages/a/package.json", "packages/a/sub/package.json",
     "packages/b/package.json", "packages/c/package.json", "docs/package.json",
     "packages/a/index.ts"}

RECURSIVE FileLists(_)
FileLists(n) ==
    IF n = 0 THEN {<<>>}
    ELSE FileLists(n - 1) \cup
         UNION { { Append(l, f) : f \in GroupFiles \ Range(l) } :
                 l \in { m \in FileLists(n - 1) : Len(m) = n - 1 } }

\* what git answers: the changed files of the commit and the diff of each
GroupAnswers ==
    UNION { { [changedFiles |-> fs, diffOf |-> df] : df \in [Range(fs) -> Diffs] } :
            fs \in FileLists(MaxFiles) }

InitGroup ==
    /\ pc = "call"
    /\ outcome = "running"
    /\ type = Null
    /\ dryRun = FALSE
    /\ lastTag = Null
    /\ todo = 1
    /\ cur = GroupCommit
    /\ pushed = <<>>
    /\ keys = GroupKeys
    /\ workspaces = GroupProject
    /\ workspaceChanged = FALSE
    /\ bumpType = "none"
    /\ newVersion = Null
    /\ calls = <<>>
    /\ parsedCommits = <<>>
    /\ result = "none"
    /\ gitCalls = <<>>
    /\ gitAnswer \in GroupAnswers
    /\ disk = <<>>
    /\ original = <<>>

\* parseCommits([cur], workspaces, root)
CallParseCommits ==
    /\ pc = "call"
    /\ LET r == Parsed(cur)
           targets == PushTargets(r, cur, keys, workspaces, root,
                                  gitAnswer.changedFiles, gitAnswer.diffOf)
       IN  /\ gitCalls' = GitCallsOf(r, cur, keys, workspaces, root, gitAnswer.changedFiles)
           /\ pushed' = targets
           /\ workspaces' = IF targets = <<>> THEN workspaces
                            ELSE PushAll(workspaces, targets, ParsedCommitOf(r, cur.hash))
           /\ workspaceChanged' = ChangedAfter(workspaceChanged, targets)
    /\ todo' = 0
    /\ pc' = "returned"
    /\ UNCHANGED <<outcome, type, dryRun, lastTag, cur, keys, bumpType, newVersion,
                   calls, parsedCommits, result, gitAnswer, disk, original>>

NextGroup == CallParseCommits

SpecGroup == InitGroup /\ [][NextGroup]_vars

\* file lies under the path of workspace k
Under(file, k) == StartsWith(file, relative(root, workspaces[k].path) \o "/")

\* the files getFileDiff was called for, in call order
DiffedFiles ==
    [i \in 1..Len(SelectSeq(gitCalls, LAMBDA c : c[1] = "getFileDiff")) |->
        SelectSeq(gitCalls, LAMBDA c : c[1] = "getFileDiff")[i][2]]

\* C24: in grouped handling getFileDiff is never called for a changed
\* package.json under a private workspace's path, it is called only for
\* changed package.json files other than the root one, and at most once for
\* each of them.
C24_NoDiffForPrivateAndOncePerFile ==
    pc = "returned" =>
        /\ gitCalls # <<>>
        /\ gitCalls[1] = <<"getChangedFiles", cur.hash[1]>>
        /\ \A i \in 1..Len(DiffedFiles) :
               /\ DiffedFiles[i] \in Range(gitAnswer.changedFiles)
               /\ EndsWith(DiffedFiles[i], "package.json")
               /\ DiffedFiles[i] # "package.json"
               /\ \A k \in Range(keys) :
                      workspaces[k].isPrivate => ~Under(DiffedFiles[i], k)
               /\ \A j \in 1..Len(DiffedFiles) : DiffedFiles[j] = DiffedFiles[i] => j = i

C24_Witness ==
    /\ pc = "returned"
    /\ gitAnswer.changedFiles = <<"packages/b/package.json", "packages/a/package.json">>
    /\ workspaces["b"].isPrivate
    /\ gitCalls = << <<"getChangedFiles", "h1">>, <<"getFileDiff", "packages/a/package.json">> >>

\* C25: in grouped handling a workspace receives the commit and changed =
\* true only if a changed package.json under its path has a diff with an
\* added or removed line inside "dependencies"; a workspace whose manifest
\* changed only inside devDependencies is exactly as before, and a changed
\* root package.json attributes the commit to nobody.
C25_OnlyProductionDiffAttributes ==
    pc = "returned" =>
        \A k \in Range(keys) :
            LET production ==
                    \E f \in Range(gitAnswer.changedFiles) :
                        /\ f # "package.json"
                        /\ EndsWith(f, "package.json")
                        /\ Under(f, k)
                        /\ gitAnswer.diffOf[f] = DiffProd
            IN  /\ (k \in Range(pushed) \/ workspaces[k].changed
                      \/ workspaces[k].commits # <<>>) => production
                /\ ~production => workspaces[k] = GroupProject[k]

C25_Witness ==
    /\ pc = "returned"
    /\ gitAnswer.changedFiles = <<"packages/a/package.json", "packages/c/package.json">>
    /\ gitAnswer.diffOf["packages/a/package.json"] = DiffDev
    /\ gitAnswer.diffOf["packages/c/package.json"] = DiffProd
    /\ pushed = <<"c">>
    /\ workspaces["c"].changed
    /\ Len(workspaces["c"].commits) = 1
    /\ workspaces["a"] = GroupProject["a"]
    /\ workspaceChanged

(* ------------------------------------------------------------------ *)
(* version.ts: bumpVersions called directly                             *)
(* ------------------------------------------------------------------ *)
\* the alternatives of /^(\^|~|>=|>|<=|<|=)?(.+)$/ in the order the regex
\* tries them
RangeOperators == <<"^", "~", ">=", ">", "<=", "<", "=">>

\* the operator captured for currentRange, from alternative i on: the first
\* alternative that prefixes the range and leaves at least one character for
\* (.+); "" when none does
RECURSIVE CapturedOperator(_, _)
CapturedOperator(currentRange, i) ==
    IF i > Len(RangeOperators) THEN ""
    ELSE IF StartsWith(currentRange, RangeOperators[i])
            /\ Len(currentRange) > Len(RangeOperators[i])
         THEN RangeOperators[i]
         ELSE CapturedOperator(currentRange, i + 1)

\* variant: the operator is dropped
preserveVersionRangeExact(currentRange, v) == v

\* preserveVersionRange: `${operator}${newVersion}`, the new version alone
\* when nothing matches
preserveVersionRange(currentRange, v) == CapturedOperator(currentRange, 1) \o v

\* a workspace as version.ts reads it: name and path
NamedWorkspace(name, path, private) ==
    [name |-> name, path |-> path, isPrivate |-> private, changed |-> FALSE]

\* the project of the direct calls: a public and a private package
ProjectKeys == <<"a", "b">>

Project ==
    [a |-> NamedWorkspace("@p/a", "/r/packages/a", FALSE),
     b |-> NamedWorkspace("@p/b", "/r/packages/b", TRUE)]

\* Object.values(allWorkspaces).find((ws) => ws.name === depName)
IsWorkspaceName(depName, wkeys, all) == \E i \in 1..Len(wkeys) : all[wkeys[i]].name = depName

DependencyTypes == <<"dependencies", "devDependencies", "peerDependencies">>

\* the loops over dependencyTypes and Object.entries(pkg[depType]); every
\* entry carries the section it sits in
RECURSIVE UpdateEntries(_, _, _, _)
UpdateEntries(entries, v, wkeys, all) ==
    IF entries = <<>> THEN <<>>
    ELSE LET e == Head(entries)
             updated == IF StartsWith(e.range, "file:") THEN e
                        ELSE IF IsWorkspaceName(e.name, wkeys, all)
                             THEN [e EXCEPT !.range = preserveVersionRange(e.range, v)]
                             ELSE e
         IN  <<updated>> \o UpdateEntries(Tail(entries), v, wkeys, all)

\* updateWorkspacePackageJson on the parsed content of one package.json
\* (Null when the file does not exist)
updateWorkspacePackageJson(file, v, wkeys, all) ==
    IF file = Null THEN Null
    ELSE Some([version |-> v, entries |-> UpdateEntries(file[1].entries, v, wkeys, all)])

\* the packages loop of updatePackageLock (Null when there is no lockfile)
RECURSIVE UpdateLockPackages(_, _, _, _)
UpdateLockPackages(packages, v, wkeys, all) ==
    IF packages = <<>> THEN <<>>
    ELSE LET p == Head(packages)
             updated == IF p.path # "" /\ IsWorkspaceName(p.name, wkeys, all)
                        THEN [p EXCEPT !.version = v] ELSE p
         IN  <<updated>> \o UpdateLockPackages(Tail(packages), v, wkeys, all)

updatePackageLock(lock, v, wkeys, all) ==
    IF lock = Null THEN Null ELSE Some(UpdateLockPackages(lock[1], v, wkeys, all))

\* bumpVersions: every workspace's package.json, then the lockfile
bumpVersions(files, v, wkeys, all) ==
    [k \in DOMAIN files |->
        IF k = "lock" THEN updatePackageLock(files[k], v, wkeys, all)
        ELSE updateWorkspacePackageJson(files[k], v, wkeys, all)]

MaxDeps == 2

\* ranges found in package.json files
Ranges == {"^1.0.0", "~1.0.0", ">=1.0.0", "1.0.0", "file:../b"}

\* dependency entries: a section, a package of the project or from outside, a range
DependencyEntries ==
    { [section |-> DependencyTypes[s], name |-> n, range |-> r] :
        s \in 1..Len(DependencyTypes), n \in {"@p/b", "lodash"}, r \in Ranges }

RECURSIVE EntryLists(_)
EntryLists(n) ==
    IF n = 0 THEN {<<>>}
    ELSE EntryLists(n - 1) \cup
         { Append(l, e) : l \in { m \in EntryLists(n - 1) : Len(m) = n - 1 },
                          e \in DependencyEntries }

\* a JSON object holds a key once
DistinctEntries(l) ==
    \A i, j \in 1..Len(l) :
        (l[i].section = l[j].section /\ l[i].name = l[j].name) => i = j

\* package.json of workspace a
ManifestsA ==
    { Some([version |-> "1.0.0", entries |-> l]) :
        l \in { m \in EntryLists(MaxDeps) : DistinctEntries(m) } }

\* package.json of workspace b: absent, or present with a dependency on a
ManifestsB ==
    { Null,
      Some([version |-> "0.9.0",
            entries |-> << [section |-> "peerDependencies", name |-> "@p/a", range |-> "<=1.0.0"] >>]) }

\* package-lock.json: absent, or present with the root, a workspace and an
\* outside package
Lockfiles ==
    { Null,
      Some(<< [path |-> "", name |-> "@p/a", version |-> "1.0.0"],
              [path |-> "packages/a", name |-> "@p/a", version |-> "1.0.0"],
              [path |-> "node_modules/lodash", name |-> "lodash", version |-> "4.0.0"] >>) }

InitVersion ==
    /\ pc = "call"
    /\ outcome = "running"
    /\ type = Null
    /\ dryRun = FALSE
    /\ lastTag = Null
    /\ todo = 0
    /\ cur = NoCommit
    /\ pushed = <<>>
    /\ keys = ProjectKeys
    /\ workspaces \in { [Project EXCEPT !["a"].changed = c] : c \in BOOLEAN }
    /\ workspaceChanged = FALSE
    /\ bumpType = "none"
    /\ newVersion = Some("2.1.0")
    /\ calls = <<>>
    /\ parsedCommits = <<>>
    /\ result = "none"
    /\ gitCalls = <<>>
    /\ gitAnswer = <<>>
    /\ disk \in [a : ManifestsA, b : ManifestsB, lock : Lockfiles]
    /\ original = disk

CallBumpVersions ==
    /\ pc = "call"
    /\ disk' = bumpVersions(disk, newVersion[1], keys, workspaces)
    /\ pc' = "returned"
    /\ UNCHANGED <<outcome, type, dryRun, lastTag, todo, cur, pushed, keys, workspaces,
                   workspaceChanged, bumpType, newVersion, calls, parsedCommits, result,
                   gitCalls, gitAnswer, original>>

NextVersionCall == CallBumpVersions

SpecVersion == InitVersion /\ [][NextVersionCall]_vars

\* what the claim expects of a range that is not a file: reference
ExpectedRange(range, v) ==
    CASE range = "^1.0.0" -> "^" \o v
      [] range = "~1.0.0" -> "~" \o v
      [] range = ">=1.0.0" -> ">=" \o v
      [] range = "<=1.0.0" -> "<=" \o v
      [] range = "1.0.0" -> v

\* C22: after bumpVersions every workspace that has a package.json has
\* version v, changed or not, private or not; every dependencies,
\* devDependencies or peerDependencies entry naming a workspace of the
\* project is v behind its original range operator; file: references and
\* entries naming packages outside the project are as they were.
C22_AllManifestsAtNewVersion ==
    pc = "returned" =>
        \A i \in 1..Len(keys) :
            LET k == keys[i]
                before == original[k]
                after == disk[k]
            IN  /\ (before = Null) <=> (after = Null)
                /\ before # Null =>
                     /\ after[1].version = newVersion[1]
                     /\ Len(after[1].entries) = Len(before[1].entries)
                     /\ \A j \in 1..Len(before[1].entries) :
                            LET e == before[1].entries[j]
                                f == after[1].entries[j]
                            IN  /\ f.section = e.section
                                /\ f.name = e.name
                                /\ f.range =
                                     IF StartsWith(e.range, "file:") THEN e.range
                                     ELSE IF \E w \in Range(keys) : workspaces[w].name = e.name
                                          THEN ExpectedRange(e.range, newVersion[1])
                                          ELSE e.range

C22_Witness ==
    /\ pc = "returned"
    /\ ~workspaces["a"].changed
    /\ disk["a"][1].version = "2.1.0"
    /\ disk["b"] # Null
    /\ disk["b"][1].version = "2.1.0"
    /\ disk["b"][1].entries[1].range = "<=2.1.0"
    /\ Len(disk["a"][1].entries) = 2
    /\ disk["a"][1].entries[1] =
           [section |-> "dependencies", name |-> "@p/b", range |-> "^2.1.0"]
    /\ disk["a"][1].entries[2] =
           [section |-> "devDependencies", name |-> "@p/b", range |-> "file:../b"]

(* ------------------------------------------------------------------ *)
(* changelog.ts: updateRootChangelog called repeatedly on one file      *)
(* ------------------------------------------------------------------ *)
MaxUpdates == 2

\* s at position i reads t, letter case aside
SubstrAtNoCase(s, i, t) ==
    i + Len(t) - 1 <= Len(s) /\ ToUpper(SubSeq(s, i, i + Len(t) - 1)) = ToUpper(t)

\* length of the match of /# (change ?log) ?\n{1,2}/i starting at position
\* i of s, 0 when there is none
HeaderLenAt(s, i) ==
    IF ~SubstrAt(s, i, "# ") \/ ~SubstrAtNoCase(s, i + 2, "change") THEN 0
    ELSE LET b == i + 8
             c == IF SubstrAt(s, b, " ") THEN b + 1 ELSE b
         IN  IF ~SubstrAtNoCase(s, c, "log") THEN 0
             ELSE LET d == c + 3
                      e == IF SubstrAt(s, d, " ") THEN d + 1 ELSE d
                  IN  IF ~SubstrAt(s, e, "\n") THEN 0
                      ELSE IF SubstrAt(s, e + 1, "\n") THEN e + 2 - i
                      ELSE e + 1 - i

\* existingChangelog.match(...): the leftmost match, as written in the file
FindHeader(s) ==
    LET starts == { i \in 1..Len(s) : HeaderLenAt(s, i) > 0 }
        first == CHOOSE i \in starts : \A j \in starts : i <= j
    IN  IF starts = {} THEN Null
        ELSE Some(SubSeq(s, first, first + HeaderLenAt(s, first) - 1))

\* the content read from changelogPath, '' when there is no such file
ExistingChangelog(file) == IF file = Null THEN "" ELSE file[1]

parseExistingChangelogHeader(file) ==
    LET existing == ExistingChangelog(file)
        headerMatch == FindHeader(existing)
    IN  IF headerMatch = Null THEN "# Changelog\n\n" ELSE headerMatch[1]

\* position of the first occurrence of t in s, 0 when there is none
IndexOf(s, t) ==
    LET starts == { i \in 1..Len(s) : SubstrAt(s, i, t) }
    IN  IF starts = {} THEN 0 ELSE CHOOSE i \in starts : \A j \in starts : i <= j

\* s.replace(t, '') with a string pattern: the first occurrence is removed
ReplaceFirst(s, t) ==
    LET i == IndexOf(s, t)
    IN  IF i = 0 THEN s ELSE SubSeq(s, 1, i - 1) \o SubSeq(s, i + Len(t), Len(s))

\* the day the tool runs
Today == [year |-> 2024, month |-> 3, day |-> 5]

\* n.toString().padStart(2, '0')
PadStart2(n) == IF n < 10 THEN "0" \o ToStr(n) ELSE ToStr(n)

generateVersionHeader(version, versionLink) ==
    "## [" \o version \o "](" \o versionLink \o ") (" \o ToStr(Today.year) \o "-"
    \o PadStart2(Today.month) \o "-" \o PadStart2(Today.day) \o ")\n\n"

\* the content updateRootChangelog writes
updateRootChangelog(file, version, versionLink, sections) ==
    LET header == parseExistingChangelogHeader(file)
        newChangelog == header \o generateVersionHeader(version, versionLink)
    IN  newChangelog \o sections \o "\n\n" \o ReplaceFirst(ExistingChangelog(file), header)

\* versionLink as processMonorepo builds it
VersionLink(version) == "https://h/r/releases/tag/v" \o version

\* root changelogs found on disk: none, with a header in one of its
\* spellings, without a header, and with the title as a second-level heading
ExistingFiles ==
    { Null,
      Some("# Changelog\n\n## [1.0.0](https://h/r/releases/tag/v1.0.0) (2024-01-01)\n\n### Features\n\n- Initial release\n"),
      Some("# Change Log\n\n## Version 1.0.0\n\n- Previous version"),
      Some("# CHANGELOG\n## 1.0.0\n- old\n"),
      Some("## Version 0.9.0\n\n- Previous content without main header"),
      Some("## Changelog\n\n- old entry\n") }

ReleaseVersions == {"1.1.0", "2.0.0"}

SectionTexts == {"", "### Features\n\n- **a** Add feature\n"}

InitRoot ==
    /\ pc = "call"
    /\ outcome = "running"
    /\ type = Null
    /\ dryRun = FALSE
    /\ lastTag = Null
    /\ todo = 0
    /\ cur = NoCommit
    /\ pushed = <<>>
    /\ keys = <<>>
    /\ workspaces = <<>>
    /\ workspaceChanged = FALSE
    /\ bumpType = "none"
    /\ newVersion = Null
    /\ calls = <<>>
    /\ parsedCommits = <<>>
    /\ result = "none"
    /\ gitCalls = <<>>
    /\ gitAnswer = <<>>
    /\ disk \in ExistingFiles
    /\ original = disk

\* updateRootChangelog(changelogPath, version, versionLink, sections);
\* calls keeps the arguments of every call so far
CallUpdateRootChangelog ==
    /\ pc = "call"
    /\ Len(calls) < MaxUpdates
    /\ \E version \in ReleaseVersions, sections \in SectionTexts :
          /\ disk' = Some(updateRootChangelog(disk, version, VersionLink(version), sections))
          /\ calls' = Append(calls, [version |-> version, sections |-> sections])
    /\ UNCHANGED <<pc, outcome, type, dryRun, lastTag, todo, cur, pushed, keys, workspaces,
                   workspaceChanged, bumpType, newVersion, parsedCommits, result,
                   gitCalls, gitAnswer, original>>

NextRoot == CallUpdateRootChangelog

SpecRoot == InitRoot /\ [][NextRoot]_vars

\* the header of the file as first found on disk: its first line when that
\* line is the changelog title, with the one or two line ends after it
OriginalHeader ==
    LET s == ExistingChangelog(original)
        k == IndexOfChar(s, "\n", 1)
        first == SubSeq(s, 1, k - 1)
    IN  IF k <= Len(s) /\ ToUpper(first) \in {"# CHANGELOG", "# CHANGE LOG",
                                               "# CHANGELOG ", "# CHANGE LOG "}
        THEN first \o "\n" \o (IF SubstrAt(s, k + 1, "\n") THEN "\n" ELSE "")
        ELSE ""

\* the file as first found on disk without its header
OriginalBody ==
    SubSeq(ExistingChangelog(original), Len(OriginalHeader) + 1,
           Len(ExistingChangelog(original)))

\* the version entries of the first n calls, the latest call first
RECURSIVE EntriesNewestFirst(_)
EntriesNewestFirst(n) ==
    IF n = 0 THEN ""
    ELSE "## [" \o calls[n].version \o "](" \o VersionLink(calls[n].version)
         \o ") (2024-03-05)\n\n" \o calls[n].sections \o "\n\n"
         \o EntriesNewestFirst(n - 1)

\* C27 as claimed: after any sequence of updateRootChangelog calls the file
\* is the changelog header once at the top (the file's own, the default when
\* it had none), then the version entries newest first, then the original
\* body unaltered.
C27_HeaderEntriesThenOriginalBody ==
    (pc = "call" /\ calls # <<>> /\ disk # <<>>) =>
        disk[1] = (IF OriginalHeader = "" THEN "# Changelog\n\n" ELSE OriginalHeader)
                  \o EntriesNewestFirst(Len(calls)) \o OriginalBody

(* ------------------------------------------------------------------ *)
(* changelog.ts: generateChangelogSections called directly              *)
(* ------------------------------------------------------------------ *)
MaxEntries == 2

ChangeTypeHeaderMapping ==
    [feat |-> "Features", feature |-> "Features", improv |-> "Improvements",
     fix |-> "Bug Fixes", docs |-> "Documentation", style |-> "Maintenance",
     refactor |-> "Improvements", perf |-> "Improvements", test |-> "Tests",
     chore |-> "Maintenance", ci |-> "Continuous Integration", build |-> "Build System"]

\* length of the \d+ run of s at position i
RECURSIVE DigitRun(_, _)
DigitRun(s, i) ==
    IF i <= Len(s) /\ IsDigit(CharAt(s, i)) THEN 1 + DigitRun(s, i + 1) ELSE 0

\* result.replace(/#(\d+)/g, `[#$1](${baseUrl}/issues/$1)`)
RECURSIVE LinkIssues(_, _)
LinkIssues(s, baseUrl) ==
    LET k == IndexOfChar(s, "#", 1)
        n == DigitRun(s, k + 1)
        num == SubSeq(s, k + 1, k + n)
    IN  IF k > Len(s) THEN s
        ELSE IF n = 0
             THEN SubSeq(s, 1, k) \o LinkIssues(SubSeq(s, k + 1, Len(s)), baseUrl)
             ELSE SubSeq(s, 1, k - 1)
                  \o "[#" \o num \o "](" \o baseUrl \o "/issues/" \o num \o ")"
                  \o LinkIssues(SubSeq(s, k + n + 1, Len(s)), baseUrl)

\* commitHash.substring(0, 7)
ShortHash(hash) == SubSeq(hash, 1, IF Len(hash) < 7 THEN Len(hash) ELSE 7)

linkifyCommitReferences(subject, baseUrl, commitHash) ==
    IF baseUrl = "" THEN subject
    ELSE LinkIssues(subject, baseUrl)
         \o (IF Truthy(commitHash)
             THEN " ([" \o ShortHash(commitHash[1]) \o "](" \o baseUrl \o "/commit/"
                  \o commitHash[1] \o "))"
             ELSE "")

\* a Map<string, string[]> as the sequence of its entries in insertion
\* order; the line goes to the entry of header, which is created at the end
\* when absent
AddLine(sections, header, line) ==
    IF \E i \in 1..Len(sections) : sections[i].header = header
    THEN [i \in 1..Len(sections) |->
             IF sections[i].header = header
             THEN [sections[i] EXCEPT !.lines = Append(@, line)]
             ELSE sections[i]]
    ELSE Append(sections, [header |-> header, lines |-> <<line>>])

\* the commit loop of one workspace: every commit adds prefix + linked
\* subject under the header of its type
RECURSIVE AddCommits(_, _, _, _)
AddCommits(commits, sections, prefix, baseUrl) ==
    IF commits = <<>> THEN sections
    ELSE LET commit == Head(commits)
             linkedSubject == linkifyCommitReferences(commit.subject, baseUrl, commit.hash)
         IN  AddCommits(Tail(commits),
                        AddLine(sections, ChangeTypeHeaderMapping[commit.type],
                                prefix \o linkedSubject),
                        prefix, baseUrl)

\* variant: private workspaces are listed in the main sections too
RECURSIVE linesSectionsByTypePrivateToo(_, _, _, _, _)
linesSectionsByTypePrivateToo(wkeys, all, baseUrl, isSinglePackageRepo, sections) ==
    IF wkeys = <<>> THEN sections
    ELSE LET workspace == all[Head(wkeys)]
             prefix == IF isSinglePackageRepo THEN "- "
                       ELSE "- **" \o workspace.shortName \o "** "
         IN  linesSectionsByTypePrivateToo(
                 Tail(wkeys), all, baseUrl, isSinglePackageRepo,
                 IF ~workspace.changed THEN sections
                 ELSE AddCommits(workspace.commits, sections, prefix, baseUrl))

\* linesSectionsByType after the loop over Object.values(workspaces)
RECURSIVE linesSectionsByType(_, _, _, _, _)
linesSectionsByType(wkeys, all, baseUrl, isSinglePackageRepo, sections) ==
    IF wkeys = <<>> THEN sections
    ELSE LET workspace == all[Head(wkeys)]
             prefix == IF isSinglePackageRepo THEN "- "
                       ELSE "- **" \o workspace.shortName \o "** "
         IN  linesSectionsByType(
                 Tail(wkeys), all, baseUrl, isSinglePackageRepo,
                 IF ~workspace.changed \/ workspace.isPrivate THEN sections
                 ELSE AddCommits(workspace.commits, sections, prefix, baseUrl))

\* linesSectionsByWorkspace after the loop: an entry for every changed
\* workspace with a commit, private or not
linesSectionsByWorkspace(wkeys, all, baseUrl) ==
    [name \in { all[k].shortName : k \in { j \in Range(wkeys) :
                                              all[j].changed /\ all[j].commits # <<>> } } |->
        LET k == CHOOSE j \in Range(wkeys) : all[j].shortName = name
        IN  AddCommits(all[k].commits, <<>>, "- ", baseUrl)]

\* lines.join(sep)
RECURSIVE Join(_, _)
Join(lines, sep) ==
    IF lines = <<>> THEN ""
    ELSE IF Len(lines) = 1 THEN lines[1]
    ELSE lines[1] \o sep \o Join(Tail(lines), sep)

\* `### ${header}\n\n${lines.join('\n')}\n` of every entry, joined by '\n'
RenderMainSections(sections) ==
    Join([i \in 1..Len(sections) |->
             "### " \o sections[i].header \o "\n\n" \o Join(sections[i].lines, "\n") \o "\n"],
         "\n")

generateChangelogSections(wkeys, all, baseUrl) ==
    [mainSections |->
         RenderMainSections(linesSectionsByType(wkeys, all, baseUrl, Len(wkeys) = 1, <<>>)),
     workspaceSections |-> linesSectionsByWorkspace(wkeys, all, baseUrl)]

\* commits as parseCommits records them (the fields the changelog reads)
SectionCommits ==
    { [subject |-> "add x", type |-> "feat", hash |-> Some("abc1234def")],
      [subject |-> "fix y (#12)", type |-> "fix", hash |-> Null],
      [subject |-> "tidy", type |-> "chore", hash |-> Some("0123456789")] }

RECURSIVE CommitLists(_)
CommitLists(n) ==
    IF n = 0 THEN {<<>>}
    ELSE CommitLists(n - 1) \cup
         { Append(l, c) : l \in { m \in CommitLists(n - 1) : Len(m) = n - 1 },
                          c \in SectionCommits }

\* a workspace after parseCommits: changed exactly when it holds commits
SectionWorkspace(shortName, private, commits) ==
    [shortName |-> shortName, isPrivate |-> private,
     changed |-> commits # <<>>, commits |-> commits]

\* a monorepo with a public and a private package, and a single-package
\* repository
SectionProjects ==
    { [keys |-> <<"a", "b">>,
       map |-> [a |-> SectionWorkspace("a", FALSE, ca),
                b |-> SectionWorkspace("b", TRUE, cb)]] :
          ca \in CommitLists(MaxEntries), cb \in CommitLists(MaxEntries) }
    \cup
    { [keys |-> <<"a">>, map |-> [a |-> SectionWorkspace("a", p, ca)]] :
          p \in BOOLEAN, ca \in CommitLists(MaxEntries) }

\* repository.url of the root package.json without git+ and .git
BaseUrls == {"", "https://h/r"}

InitSections ==
    /\ pc = "call"
    /\ outcome = "running"
    /\ type = Null
    /\ dryRun = FALSE
    /\ lastTag = Null
    /\ todo = 0
    /\ cur = NoCommit
    /\ pushed = <<>>
    /\ \E p \in SectionProjects : keys = p.keys /\ workspaces = p.map
    /\ workspaceChanged = FALSE
    /\ bumpType = "none"
    /\ newVersion = Null
    /\ calls = <<>>
    /\ parsedCommits = <<>>
    /\ result = "none"
    /\ gitCalls = <<>>
    /\ gitAnswer = <<>>
    /\ disk \in { [baseUrl |-> u] : u \in BaseUrls }
    /\ original = <<>>

CallGenerateChangelogSections ==
    /\ pc = "call"
    /\ result' = generateChangelogSections(keys, workspaces, disk.baseUrl)
    /\ pc' = "returned"
    /\ UNCHANGED <<outcome, type, dryRun, lastTag, todo, cur, pushed, keys, workspaces,
                   workspaceChanged, bumpType, newVersion, calls, parsedCommits,
                   gitCalls, gitAnswer, disk, original>>

NextSections == CallGenerateChangelogSections

SpecSections == InitSections /\ [][NextSections]_vars

\* the changelog text expected for a commit
ExpectedText(commit) ==
    IF disk.baseUrl = "" THEN commit.subject
    ELSE CASE commit.subject = "add x" -> "add x ([abc1234](https://h/r/commit/abc1234def))"
           [] commit.subject = "fix y (#12)" -> "fix y ([#12](https://h/r/issues/12))"
           [] commit.subject = "tidy" -> "tidy ([0123456](https://h/r/commit/0123456789))"

\* the lines of the main sections under the heading of a commit type
MainLinesUnder(header) ==
    LET lines == SplitLines(result.mainSections)
        at == { i \in 1..Len(lines) : lines[i] = "### " \o header }
        next(i) == { j \in (i + 1)..Len(lines) : StartsWith(lines[j], "### ") }
    IN  { lines[j] : j \in { j \in 1..Len(lines) :
                                \E i \in at : i < j /\ \A n \in next(i) : j < n } }

\* the lines a workspace's own sections hold under a heading
OwnLinesUnder(name, header) ==
    IF name \notin DOMAIN result.workspaceSections THEN {}
    ELSE UNION { Range(result.workspaceSections[name][i].lines) :
                 i \in { j \in 1..Len(result.workspaceSections[name]) :
                            result.workspaceSections[name][j].header = header } }

\* C21: no commit of a private workspace is placed in the main sections,
\* while the private workspace's own sections hold all its commits; every
\* commit of a changed public workspace is in the main sections (behind
\* the package name in a monorepo) and in that workspace's own sections.
C21_PrivateOnlyInOwnSections ==
    pc = "returned" =>
        \A k \in Range(keys) :
            LET w == workspaces[k]
                mainLine(c) == IF Len(keys) = 1 THEN "- " \o ExpectedText(c)
                               ELSE "- **" \o w.shortName \o "** " \o ExpectedText(c)
            IN  /\ w.isPrivate =>
                     /\ \A line \in Range(SplitLines(result.mainSections)) :
                            ~StartsWith(line, "- **" \o w.shortName \o "**")
                     /\ Len(keys) = 1 => result.mainSections = ""
                /\ \A i \in 1..Len(w.commits) :
                     LET c == w.commits[i]
                         header == ChangeTypeHeaderMapping[c.type]
                     IN  /\ w.changed =>
                               ("- " \o ExpectedText(c)) \in OwnLinesUnder(w.shortName, header)
                         /\ (w.changed /\ ~w.isPrivate) =>
                               mainLine(c) \in MainLinesUnder(header)

C21_Witness ==
    /\ pc = "returned"
    /\ keys = <<"a", "b">>
    /\ disk.baseUrl = "https://h/r"
    /\ workspaces["b"].isPrivate
    /\ Len(workspaces["b"].commits) = 1
    /\ workspaces["b"].commits[1].subject = "fix y (#12)"
    /\ Len(workspaces["a"].commits) = 1
    /\ workspaces["a"].commits[1].subject = "add x"
    /\ result.mainSections =
           "### Features\n\n- **a** add x ([abc1234](https://h/r/commit/abc1234def))\n"
    /\ result.workspaceSections["b"] =
           << [header |-> "Bug Fixes",
               lines |-> <<"- fix y ([#12](https://h/r/issues/12))">>] >>

====
